---------------------------- MODULE Spec2Model ----------------------------
(***************************************************************************)
(* Spaced-repetition scheduling core of mindspark-srs.                     *)
(*                                                                         *)
(*   - srs_algorithm.py: calculate_srs (boolean rule), fuzzy_match,        *)
(*     calculate_next_review / calculate_next_review_legacy (quality rule) *)
(*   - app.py: submit_answer_duolingo, get_next_word (words table);        *)
(*     start_session, post_review (reviews table), get_due_count;          *)
(*     session_start, session_complete, session_answer                     *)
(*   - database.py: SimpleDatabase.add_review, get_due_vocab               *)
(*   - frontend/backend/review_scheduler.py: load_due_vocabulary, and      *)
(*     SRSAlgorithm.get_due_vocab (review_sessions table)                  *)
(*   - database_resilience.py: CircuitBreaker, and                         *)
(*     DatabaseResilience.get_connection with the connections it tries     *)
(*                                                                         *)
(* Specifications: Spec (the server), SpecValid and SpecDefault (runs of   *)
(* the scheduling rules), SpecDue (the selections over review_sessions),   *)
(* SpecSelect (the selections next to a SimpleDatabase object),            *)
(* SpecQuality (runs of the quality rule), SpecJudge (the answer judge),   *)
(* SpecSession (the session handlers next to the answer handlers),         *)
(* SpecRetry (answers for one word, resubmitted after a failure),          *)
(* SpecBreaker (calls of the circuit breaker's methods), SpecConnect       *)
(* (calls of get_connection).                                              *)
(*                                                                         *)
(* The handlers are taken from .history/app_20260202141946.py, the last    *)
(* version of app.py whose statements run; app.py holds the same handlers  *)
(* with placeholders rewritten by fix_sql_placeholders.py.                 *)
(*                                                                         *)
(* The reviews table.  init_db creates reviews(word_id, review_time,       *)
(* correct, response_time, user_answer) with CREATE TABLE IF NOT EXISTS,   *)
(* so the table of an existing database file is kept as it is.             *)
(* submit_answer_duolingo writes that shape (schema "duolingo").           *)
(* start_session and post_review name other columns of reviews             *)
(* (next_review_date, interval_days, ease_factor, repetition_count,        *)
(* score, review_date): they run only on a file whose reviews table has    *)
(* them (schema "legacy") and raise on the table init_db creates.  Init    *)
(* draws the shape; each handler fails with 500 on the shape it does not   *)
(* fit.                                                                    *)
(*                                                                         *)
(* Time.  clock counts minutes; a day has DayLen minutes.                  *)
(*                                                                         *)
(* Floating point.  ease_factor is a Python float (IEEE-754 binary64).     *)
(* A double x is held exactly as the record [h |-> H, d |-> D] with        *)
(*        x = H/100 + D/(100 * 2^60),                                      *)
(* H the nearest hundredth and D a small integer offset.  Sums and         *)
(* products of such pairs are exact; Rnd rounds an exact value to the      *)
(* nearest double (ties to even), which only needs the value modulo twice  *)
(* the unit in the last place, so every number stays inside 32 bits.       *)
(***************************************************************************)
EXTENDS Integers, Sequences, FiniteSets, TLC

(***************************************************************************)
(* Bounds of the model (not program constants).                            *)
(***************************************************************************)
MaxInterval == 12      \* largest interval drawn in Init of a scheduler run
MaxReps == 3           \* largest repetition count / streak drawn in Init
MaxAnswers == 4        \* answers applied in one scheduler run
NumWords == 2          \* rows of the seed data kept in the words table
NumRequests == 2       \* answer submissions that may be in flight together
MaxOps == 3            \* requests the server receives in one behaviour
DayLen == 2            \* minutes in a day, scaled down
MaxSubmitted == 2      \* answers in flight or recorded before one more is taken
NumVocab == 2          \* rows of vocabulary
NumSessions == 3       \* rows of review_sessions
MaxDay == 2            \* last day a next_review_date of review_sessions names
MaxClock == 4          \* last minute the clock reaches
MaxReviews == 6        \* reviews in one run of the quality rule
MaxLen == 3            \* longest text drawn over the judge's alphabet
MaxCalls == 7          \* calls of the circuit breaker's methods in a run

(***************************************************************************)
(* IEEE-754 binary64 arithmetic on [h, d] pairs.                           *)
(***************************************************************************)
Dbl(H, D) == [h |-> H, d |-> D]

\* 2^n for n in 0..30
Pow2(n) ==
    <<1, 2, 4, 8, 16, 32, 64, 128, 256, 512, 1024, 2048, 4096, 8192, 16384,
      32768, 65536, 131072, 262144, 524288, 1048576, 2097152, 4194304,
      8388608, 16777216, 33554432, 67108864, 134217728, 268435456,
      536870912, 1073741824>>[n + 1]

\* the value H/100 + D/(100*2^60), H > 0, lies in [2^(J-8), 2^(J-7))
InBinade(H, D, J) ==
    /\ \/ 100 * Pow2(J) < 256 * H
       \/ (100 * Pow2(J) = 256 * H /\ D >= 0)
    /\ ~ \/ 100 * Pow2(J + 1) < 256 * H
         \/ (100 * Pow2(J + 1) = 256 * H /\ D >= 0)

Binade(H, D) == CHOOSE J \in 0..22 : InBinade(H, D, J)

\* unit in the last place of binade J, in units of 1/(100*2^60)
Quantum(J) == 100 * Pow2(J)

\* 2^60 modulo twice the unit of binade J: 2 * Quantum(J) = 25 * 2^(J+3) and
\* 2^20 = 1 (mod 25), so 2^60 = 2^(J+3) * (2^((57-J) mod 20) mod 25)
Pow2Mod60(J) == Pow2(J + 3) * (Pow2((57 - J) % 20) % 25)

\* round the exact positive value (H, D) to the nearest double, ties to even
RndPos(H, D) ==
    LET J == Binade(H, D)
        q == Quantum(J)
        r == (H * Pow2Mod60(J) + D) % (2 * q)
        m == r % q
    IN  IF 2 * m < q THEN Dbl(H, D - m)
        ELSE IF 2 * m > q THEN Dbl(H, D + q - m)
        ELSE IF r = m THEN Dbl(H, D - m)
        ELSE Dbl(H, D + q - m)

\* rounding is symmetric in the sign; a difference whose hundredths cancel
\* is an exact double already (Sterbenz)
Rnd(H, D) ==
    IF H = 0 THEN Dbl(0, D)
    ELSE IF H < 0 THEN LET p == RndPos(-H, -D) IN Dbl(-p.h, -p.d)
    ELSE RndPos(H, D)

\* the double denoted by the decimal literal H/100
Lit(H) == Rnd(H, 0)

DblAdd(a, b) == Rnd(a.h + b.h, a.d + b.d)
DblSub(a, b) == Rnd(a.h - b.h, a.d - b.d)
\* int * float
DblMulInt(i, a) == IF i = 0 THEN Dbl(0, 0) ELSE Rnd(i * a.h, i * a.d)

DblLess(a, b) == a.h < b.h \/ (a.h = b.h /\ a.d < b.d)
DblLeq(a, b) == a = b \/ DblLess(a, b)
DblMin(a, b) == IF DblLess(b, a) THEN b ELSE a
DblMax(a, b) == IF DblLess(a, b) THEN b ELSE a

\* n/d rounded to the nearest integer, ties to the even one (n >= 0, d > 0)
RoundHalfEven(n, d) ==
    LET q == n \div d
        r == n % d
    IN  IF 2 * r < d THEN q
        ELSE IF 2 * r > d THEN q + 1
        ELSE IF q % 2 = 0 THEN q ELSE q + 1

\* int(i * x) in place of round(i * x)
RoundProduct_truncate(i, x) == (i * x.h) \div 100

\* Python round(i * x): the product is first rounded to a double, then the
\* double is rounded to an integer, ties to even.  The product can only be
\* a tie when its hundredths are ...50; it then is the double n.5 exactly
\* when the offset is within half a unit in the last place of n.5.
RoundProduct(i, x) ==
    LET H == i * x.h
        D == i * x.d
        absD == IF D < 0 THEN -D ELSE D
    IN  IF H % 100 # 50 THEN RoundHalfEven(H, 100)
        ELSE IF 2 * absD <= Quantum(Binade(H, D)) THEN RoundHalfEven(H, 100)
        ELSE IF D > 0 THEN (H \div 100) + 1
        ELSE H \div 100

(***************************************************************************)
(* srs_algorithm.py                                                        *)
(***************************************************************************)
\* calculate_srs without the clamp of the ease factor
calculate_srs_unclamped(correct, current_interval, ease_factor, repetitions) ==
    IF correct
    THEN LET reps == repetitions + 1
             new_interval == IF reps = 1 THEN 1
                             ELSE IF reps = 2 THEN 3
                             ELSE RoundProduct(current_interval, ease_factor)
         IN  <<new_interval, DblAdd(ease_factor, Lit(10)), reps>>
    ELSE LET new_interval == IF current_interval \div 2 > 1
                             THEN current_interval \div 2 ELSE 1
         IN  <<new_interval, DblSub(ease_factor, Lit(20)), 0>>

\* calculate_srs keeping the repetition count on an incorrect answer
calculate_srs_keep_reps(correct, current_interval, ease_factor, repetitions) ==
    IF correct
    THEN LET reps == repetitions + 1
             new_interval == IF reps = 1 THEN 1
                             ELSE IF reps = 2 THEN 3
                             ELSE RoundProduct(current_interval, ease_factor)
         IN  <<new_interval, DblMin(DblAdd(ease_factor, Lit(10)), Lit(300)), reps>>
    ELSE LET new_interval == IF current_interval \div 2 > 1
                             THEN current_interval \div 2 ELSE 1
         IN  <<new_interval, DblMax(Lit(130), DblSub(ease_factor, Lit(20))), repetitions>>

\* calculate_srs with the quality rule's second-repetition interval
calculate_srs_six(correct, current_interval, ease_factor, repetitions) ==
    IF correct
    THEN LET reps == repetitions + 1
             new_interval == IF reps = 1 THEN 1
                             ELSE IF reps = 2 THEN 6
                             ELSE RoundProduct(current_interval, ease_factor)
         IN  <<new_interval, DblMin(DblAdd(ease_factor, Lit(10)), Lit(300)), reps>>
    ELSE LET new_interval == IF current_interval \div 2 > 1
                             THEN current_interval \div 2 ELSE 1
         IN  <<new_interval, DblMax(Lit(130), DblSub(ease_factor, Lit(20))), 0>>

\* calculate_srs resetting the interval to 1 on an incorrect answer
calculate_srs_reset(correct, current_interval, ease_factor, repetitions) ==
    IF correct
    THEN LET reps == repetitions + 1
             new_interval == IF reps = 1 THEN 1
                             ELSE IF reps = 2 THEN 3
                             ELSE RoundProduct(current_interval, ease_factor)
         IN  <<new_interval, DblMin(DblAdd(ease_factor, Lit(10)), Lit(300)), reps>>
    ELSE <<1, DblMax(Lit(130), DblSub(ease_factor, Lit(20))), 0>>

\* calculate_srs halving the interval without the floor of 1
calculate_srs_no_floor(correct, current_interval, ease_factor, repetitions) ==
    IF correct
    THEN LET reps == repetitions + 1
             new_interval == IF reps = 1 THEN 1
                             ELSE IF reps = 2 THEN 3
                             ELSE RoundProduct(current_interval, ease_factor)
         IN  <<new_interval, DblMin(DblAdd(ease_factor, Lit(10)), Lit(300)), reps>>
    ELSE <<current_interval \div 2, DblMax(Lit(130), DblSub(ease_factor, Lit(20))), 0>>

\* variant: an incorrect answer takes one repetition off
calculate_srs_decrement(correct, current_interval, ease_factor, repetitions) ==
    IF correct
    THEN LET reps == repetitions + 1
             new_interval == IF reps = 1 THEN 1
                             ELSE IF reps = 2 THEN 3
                             ELSE RoundProduct(current_interval, ease_factor)
             new_ease_factor == DblMin(DblAdd(ease_factor, Lit(10)), Lit(300))
         IN  <<new_interval, new_ease_factor, reps>>
    ELSE LET new_interval == IF current_interval \div 2 > 1
                             THEN current_interval \div 2 ELSE 1
             new_ease_factor == DblMax(Lit(130), DblSub(ease_factor, Lit(20)))
         IN  <<new_interval, new_ease_factor, repetitions - 1>>

\* SRSAlgorithm.calculate_srs: (new_interval, new_ease_factor, repetitions)
calculate_srs(correct, current_interval, ease_factor, repetitions) ==
    IF correct
    THEN LET reps == repetitions + 1
             new_interval == IF reps = 1 THEN 1
                             ELSE IF reps = 2 THEN 3
                             ELSE RoundProduct(current_interval, ease_factor)
             new_ease_factor == DblMin(DblAdd(ease_factor, Lit(10)), Lit(300))
         IN  <<new_interval, new_ease_factor, reps>>
    ELSE LET new_interval == IF current_interval \div 2 > 1
                             THEN current_interval \div 2 ELSE 1
             new_ease_factor == DblMax(Lit(130), DblSub(ease_factor, Lit(20)))
         IN  <<new_interval, new_ease_factor, 0>>


\* variant: the second repetition gets the boolean rule's interval 3
calculate_next_review_legacy_three(quality_response, current_interval, current_ease, repetition_count) ==
    LET reps == IF quality_response < 3 THEN 0 ELSE repetition_count + 1
        interval == IF quality_response < 3 THEN 1
                    ELSE IF reps = 1 THEN 1
                    ELSE IF reps = 2 THEN 3
                    ELSE RoundProduct(current_interval, current_ease)
        a == 5 - quality_response
        delta == DblSub(Lit(10), DblMulInt(a, DblAdd(Lit(8), DblMulInt(a, Lit(2)))))
        sum == DblAdd(current_ease, delta)
        ease_factor == IF DblLess(sum, Lit(130)) THEN Lit(130) ELSE sum
    IN  <<interval, ease_factor, reps>>

\* SRSAlgorithm.calculate_next_review_legacy: SM-2 with a quality score 0..5;
\* (interval, ease_factor, repetition_count), the reported date is formed by
\* the callers' model from the interval
calculate_next_review_legacy(quality_response, current_interval, current_ease, repetition_count) ==
    LET reps == IF quality_response < 3 THEN 0 ELSE repetition_count + 1
        interval == IF quality_response < 3 THEN 1
                    ELSE IF reps = 1 THEN 1
                    ELSE IF reps = 2 THEN 6
                    ELSE RoundProduct(current_interval, current_ease)
        a == 5 - quality_response
        delta == DblSub(Lit(10), DblMulInt(a, DblAdd(Lit(8), DblMulInt(a, Lit(2)))))
        sum == DblAdd(current_ease, delta)
        ease_factor == IF DblLess(sum, Lit(130)) THEN Lit(130) ELSE sum
    IN  <<interval, ease_factor, reps>>

\* SRSAlgorithm.calculate_next_review: the argument is read as a truth value
calculate_next_review(correct, current_interval, current_ease, repetition_count) ==
    calculate_next_review_legacy(IF correct THEN 5 ELSE 0,
                                 current_interval, current_ease, repetition_count)

(***************************************************************************)
(* Strings are sequences of one-character strings.                         *)
(***************************************************************************)
LowerCase ==
    <<"a", "b", "c", "d", "e", "f", "g", "h", "i", "j", "k", "l", "m",
      "n", "o", "p", "q", "r", "s", "t", "u", "v", "w", "x", "y", "z">>

UpperCase ==
    <<"A", "B", "C", "D", "E", "F", "G", "H", "I", "J", "K", "L", "M",
      "N", "O", "P", "Q", "R", "S", "T", "U", "V", "W", "X", "Y", "Z">>

Whitespace == {" ", "\t", "\n"}

\* str.lower(), one character
LowerChar(c) ==
    IF \E i \in 1..26 : UpperCase[i] = c
    THEN LowerCase[CHOOSE i \in 1..26 : UpperCase[i] = c]
    ELSE c

\* str.lower()
Lower(str) == [i \in 1..Len(str) |-> LowerChar(str[i])]

\* str.strip()
Strip(str) ==
    LET keep == {i \in 1..Len(str) : str[i] \notin Whitespace}
    IN  IF keep = {} THEN <<>>
        ELSE LET lo == CHOOSE i \in keep : \A j \in keep : i <= j
                 hi == CHOOSE i \in keep : \A j \in keep : j <= i
             IN  SubSeq(str, lo, hi)

\* length of the common run of a from i and b from j, inside a[..ahi], b[..bhi]
RunLength(a, b, i, j, ahi, bhi) ==
    LET most == IF ahi - i < bhi - j THEN ahi - i + 1 ELSE bhi - j + 1
        runs == {k \in 0..most : \A t \in 0..(k - 1) : a[i + t] = b[j + t]}
    IN  CHOOSE k \in runs : \A l \in runs : l <= k

\* SequenceMatcher.find_longest_match on a[alo..ahi], b[blo..bhi] (no junk):
\* <<i, j, k>>, the longest block, the earliest in a, then the earliest in b
find_longest_match(a, b, alo, ahi, blo, bhi) ==
    LET blocks == {<<i, j, RunLength(a, b, i, j, ahi, bhi)>> :
                        i \in alo..ahi, j \in blo..bhi}
        Better(x, y) == \/ x[3] > y[3]
                        \/ (x[3] = y[3] /\ x[1] < y[1])
                        \/ (x[3] = y[3] /\ x[1] = y[1] /\ x[2] <= y[2])
    IN  IF blocks = {} THEN <<alo, blo, 0>>
        ELSE CHOOSE x \in blocks : \A y \in blocks : Better(x, y)

\* SequenceMatcher.get_matching_blocks: the queue of ranges still to match
\* and the total size of the blocks found, after n turns of its loop
matching_blocks(a, b, n) ==
    LET turn[t \in 0..n] ==
            IF t = 0
            THEN [queue |-> <<<<1, Len(a), 1, Len(b)>>>>, size |-> 0]
            ELSE LET prev == turn[t - 1]
                 IN  IF prev.queue = <<>> THEN prev
                     ELSE LET top == prev.queue[Len(prev.queue)]
                              rest == SubSeq(prev.queue, 1, Len(prev.queue) - 1)
                              m == find_longest_match(a, b, top[1], top[2],
                                                      top[3], top[4])
                              i == m[1]
                              j == m[2]
                              k == m[3]
                              left == IF k > 0 /\ top[1] < i /\ top[3] < j
                                      THEN <<<<top[1], i - 1, top[3], j - 1>>>>
                                      ELSE <<>>
                              right == IF k > 0 /\ i + k <= top[2] /\ j + k <= top[4]
                                       THEN <<<<i + k, top[2], j + k, top[4]>>>>
                                       ELSE <<>>
                          IN  [queue |-> rest \o left \o right,
                               size |-> prev.size + k]
    IN  turn[n]

\* sum of the sizes of the matching blocks of a and b
matching_size(a, b) == matching_blocks(a, b, Len(a) + Len(b) + 1).size

\* variant: the texts are stripped but their case is kept
fuzzy_match_no_fold(user_answer, correct_answer) ==
    LET user_clean == Strip(user_answer)
        correct_clean == Strip(correct_answer)
        matches == matching_size(user_clean, correct_clean)
    IN  IF user_clean = correct_clean THEN TRUE
        ELSE 5 * matches >= 2 * (Len(user_clean) + Len(correct_clean))

\* variant: the ratio has to exceed the threshold
fuzzy_match_strict(user_answer, correct_answer) ==
    LET user_clean == Strip(Lower(user_answer))
        correct_clean == Strip(Lower(correct_answer))
        matches == matching_size(user_clean, correct_clean)
    IN  IF user_clean = correct_clean THEN TRUE
        ELSE 5 * matches > 2 * (Len(user_clean) + Len(correct_clean))

\* SRSAlgorithm.fuzzy_match with the default threshold 0.8:
\* ratio = 2.0 * matches / (len(a) + len(b)) >= 0.8  iff  5 * matches >= 2 * length
fuzzy_match(user_answer, correct_answer) ==
    LET user_clean == Strip(Lower(user_answer))
        correct_clean == Strip(Lower(correct_answer))
        matches == matching_size(user_clean, correct_clean)
    IN  IF user_clean = correct_clean THEN TRUE
        ELSE 5 * matches >= 2 * (Len(user_clean) + Len(correct_clean))

(***************************************************************************)
(* Scheduling state and the update applied by submit_answer_duolingo.      *)
(***************************************************************************)
SchedState(i, e, r, s) ==
    [interval |-> i, ease_factor |-> e, repetitions |-> r, streak |-> s]

\* column defaults of the words table
DefaultState == SchedState(1, Lit(250), 0, 0)

\* the tuple calculate_srs returns, as a scheduling state
FromResult(res, streak) == SchedState(res[1], res[2], res[3], streak)

\* Advance with a streak that an incorrect answer leaves as it is
Advance_keep_streak(s, is_correct) ==
    FromResult(calculate_srs(is_correct, s.interval, s.ease_factor, s.repetitions),
               IF is_correct THEN s.streak + 1 ELSE s.streak)

\* submit_answer_duolingo, from the loaded row to the new field values:
\* calculate_srs plus the streak update
Advance(s, is_correct) ==
    FromResult(calculate_srs(is_correct, s.interval, s.ease_factor, s.repetitions),
               IF is_correct THEN s.streak + 1 ELSE 0)

\* post_review / submit_answer, from the latest row to the new row's values
AdvanceQuality(s, score) ==
    FromResult(calculate_next_review(score # 0, s.interval, s.ease_factor,
                                     s.repetitions),
               s.streak)

(***************************************************************************)
(* State.                                                                  *)
(***************************************************************************)
VARIABLES
    schema,    \* shape of the reviews table of the database file
    clock,     \* datetime.now(), in minutes
    words,     \* words table: the scheduling columns of each row
    reviews,   \* reviews table: its rows in id order
    req,       \* submit_answer_duolingo: locals and position of each request
    reply,     \* response of the request that completed last
    ops,       \* number of requests received so far
    rule,      \* scheduler run: "boolean", "quality", "submitted" or "none"
    sched,     \* scheduler run: the current scheduling state
    before,    \* scheduler run: the state the last answer was applied to
    outcome,   \* scheduler run: "none", "correct", "incorrect" or "q0".."q5"
    answers,   \* scheduler run: number of answers applied so far
    depth,     \* scheduler run: number of answers the run may apply
    review_sessions, \* review_sessions table of the command-line program
    handle,    \* SimpleDatabase: "none", or the state of the connection its
               \* connect() has cached: "open" or "closed"
    learning_sessions, \* learning_sessions table: its rows in id order
    user_answers,      \* user_answers table: its rows in id order
    breaker,   \* db_resilience.circuit_breaker: state, failure_count and
               \* last_failure_time
    link       \* db_resilience: current_db_type and connection_failures,
               \* the connection the last get_connection() returned, the
               \* connection attempts that call made on the PostgreSQL
               \* server and what its sqlite3.connect ended in

system == <<schema, clock, words, reviews, req, reply, ops>>

run == <<rule, sched, before, outcome, answers, depth>>

library == <<review_sessions, handle>>

tracking == <<learning_sessions, user_answers>>

resilience == <<breaker, link>>

vars == <<schema, clock, words, reviews, req, reply, ops,
          rule, sched, before, outcome, answers, depth,
          review_sessions, handle, learning_sessions, user_answers,
          breaker, link>>

(***************************************************************************)
(* The database after init_db and the requests before any has arrived.     *)
(***************************************************************************)
\* SQL NULL in a datetime column (times are minutes >= 0)
NULL == 0 - 1

\* ids of the first seeded rows of words
Words == 1..NumWords

\* indonesian and difficulty_score (in hundredths) of the seeded rows
WordText ==
    <<[indonesian |-> <<"a", "p", "e", "l">>, difficulty_score |-> 100],
      [indonesian |-> <<"b", "u", "k", "u">>, difficulty_score |-> 100],
      [indonesian |-> <<"b", "e", "r", "l", "a", "r", "i">>, difficulty_score |-> 150]>>

\* a row of words: column defaults, next_review and last_reviewed NULL
WordRow(s, next_review, last_reviewed) ==
    [interval |-> s.interval, ease_factor |-> s.ease_factor,
     repetitions |-> s.repetitions, streak |-> s.streak,
     next_review |-> next_review, last_reviewed |-> last_reviewed]

Requests == 1..NumRequests

IdleRequest == [pc |-> "idle"]

NoReply == [handler |-> "none", status |-> 0]

\* no SimpleDatabase object is constructed, review_sessions is empty
InitLibrary ==
    /\ review_sessions = <<>>
    /\ handle = "none"

\* no session was started, no answer of a session recorded
InitTracking ==
    /\ learning_sessions = <<>>
    /\ user_answers = <<>>

\* CircuitBreaker.__init__ and DatabaseResilience.__init__
NewBreaker ==
    [state |-> "closed", failure_count |-> 0, last_failure_time |-> NULL]

NoLink ==
    [current_db_type |-> "unknown", connection_failures |-> 0,
     conn |-> "none", attempts |-> <<>>, sqlite |-> "untried"]

\* the module-level db_resilience before any call
InitResilience ==
    /\ breaker = NewBreaker
    /\ link = NoLink

InitSystem ==
    /\ clock = 0
    /\ words = [w \in Words |-> WordRow(DefaultState, NULL, NULL)]
    /\ reviews = <<>>
    /\ req = [r \in Requests |-> IdleRequest]
    /\ reply = NoReply
    /\ ops = 0
    /\ InitLibrary
    /\ InitTracking
    /\ InitResilience

InitRun ==
    /\ rule = "none"
    /\ sched = DefaultState
    /\ before = sched
    /\ outcome = "none"
    /\ answers = 0
    /\ depth = 0

(***************************************************************************)
(* Scheduler runs: the update rules applied to one item, answer after      *)
(* answer.                                                                 *)
(***************************************************************************)
\* ease factors drawn in Init: the doubles 1.30, 1.35, ..., 3.00
EaseGrid == {Lit(5 * k) : k \in 26..60}

ValidStates ==
    {SchedState(i, e, r, s) : i \in 1..MaxInterval, e \in EaseGrid,
                              r \in 0..MaxReps, s \in 0..MaxReps}

\* one answer judged correct or incorrect, boolean rule
AnswerBoolean(is_correct) ==
    /\ rule = "boolean"
    /\ answers < depth
    /\ answers' = answers + 1
    /\ sched' = Advance(sched, is_correct)
    /\ before' = sched
    /\ outcome' = IF is_correct THEN "correct" ELSE "incorrect"
    /\ UNCHANGED <<rule, depth>>
    /\ UNCHANGED system
    /\ UNCHANGED library
    /\ UNCHANGED tracking
    /\ UNCHANGED resilience

CorrectAnswer == AnswerBoolean(TRUE)

IncorrectAnswer == AnswerBoolean(FALSE)

QualityName(q) == <<"q0", "q1", "q2", "q3", "q4", "q5">>[q + 1]

\* one review with quality q, quality-scored rule
AnswerQuality(q) ==
    /\ rule = "quality"
    /\ answers < depth
    /\ answers' = answers + 1
    /\ LET res == calculate_next_review_legacy(q, sched.interval,
                                                sched.ease_factor, sched.repetitions)
       IN  sched' = SchedState(res[1], res[2], res[3], sched.streak)
    /\ before' = sched
    /\ outcome' = QualityName(q)
    /\ UNCHANGED <<rule, depth>>
    /\ UNCHANGED system
    /\ UNCHANGED library
    /\ UNCHANGED tracking
    /\ UNCHANGED resilience

QualityReview == \E q \in 0..5 : AnswerQuality(q)

\* any valid state, boolean rule
InitValid ==
    /\ rule = "boolean"
    /\ sched \in ValidStates
    /\ before = sched
    /\ outcome = "none"
    /\ answers = 0
    /\ depth = MaxAnswers
    /\ schema = "duolingo"
    /\ InitSystem

NextValid == CorrectAnswer \/ IncorrectAnswer

SpecValid == InitValid /\ [][NextValid]_vars

\* the default state, either rule
InitDefault ==
    /\ rule \in {"boolean", "quality"}
    /\ sched = DefaultState
    /\ before = sched
    /\ outcome = "none"
    /\ answers = 0
    /\ depth = IF rule = "boolean" THEN 2 * MaxAnswers ELSE MaxAnswers
    /\ schema = "duolingo"
    /\ InitSystem

NextDefault == CorrectAnswer \/ IncorrectAnswer \/ QualityReview

SpecDefault == InitDefault /\ [][NextDefault]_vars

\* one review whose submitted quality q a handler (api_action, post_review,
\* submit_answer) hands to calculate_next_review as its first argument
SubmittedQuality(q) ==
    /\ rule = "submitted"
    /\ answers < depth
    /\ answers' = answers + 1
    /\ sched' = AdvanceQuality(sched, q)
    /\ before' = sched
    /\ outcome' = QualityName(q)
    /\ UNCHANGED <<rule, depth>>
    /\ UNCHANGED system
    /\ UNCHANGED library
    /\ UNCHANGED tracking
    /\ UNCHANGED resilience

SubmittedReview == \E q \in 0..5 : SubmittedQuality(q)

\* the quality rule, called directly ("quality") or through the handlers'
\* call ("submitted"): one review of any valid state, or a run of MaxReviews
\* reviews of the default state
InitQuality ==
    /\ rule \in {"quality", "submitted"}
    /\ \/ /\ sched \in {s \in ValidStates : s.streak = 0}
          /\ depth = 1
       \/ /\ sched = DefaultState
          /\ depth = MaxReviews
    /\ before = sched
    /\ outcome = "none"
    /\ answers = 0
    /\ schema = "duolingo"
    /\ InitSystem

NextQuality == QualityReview \/ SubmittedReview

SpecQuality == InitQuality /\ [][NextQuality]_vars

(***************************************************************************)
(* The server: POST /api/submit-answer (submit_answer_duolingo).  Requests  *)
(* run in threads of their own, each with a connection of its own          *)
(* (get_db): the read and the write of a request are separate steps.       *)
(***************************************************************************)
Reply(handler, status, body) ==
    [handler |-> handler, status |-> status, body |-> body]

\* the answers a client types
UserAnswers == {<<"a", "p", "e", "l">>, <<"b", "u", "k", "u", " ">>}

\* an id no row of words has
UnknownWord == NumWords + 1

\* data is empty, or word_id is missing: 400
SubmitBadRequest ==
    /\ ops < MaxOps
    /\ ops' = ops + 1
    /\ reply' = Reply("submit_answer_duolingo", 400, "bad request")
    /\ UNCHANGED <<schema, clock, words, reviews, req>>
    /\ UNCHANGED run
    /\ UNCHANGED library
    /\ UNCHANGED tracking
    /\ UNCHANGED resilience

\* SELECT ... FROM words WHERE id = ? finds no row: 404
SubmitNotFound(word_id) ==
    /\ ops < MaxOps
    /\ word_id \notin Words
    /\ ops' = ops + 1
    /\ reply' = Reply("submit_answer_duolingo", 404, "Word not found")
    /\ UNCHANGED <<schema, clock, words, reviews, req>>
    /\ UNCHANGED run
    /\ UNCHANGED library
    /\ UNCHANGED tracking
    /\ UNCHANGED resilience

\* word_row[2] or 1, ..., word_row[4] or 2.5: the loaded scheduling state
LoadedState(word_row) ==
    SchedState(IF word_row.interval = 0 THEN 1 ELSE word_row.interval,
               IF word_row.ease_factor = Dbl(0, 0) THEN Lit(250)
                                                   ELSE word_row.ease_factor,
               word_row.repetitions, word_row.streak)

\* the locals of a request once next_review is computed
LoadedRequest(word_id, answer, is_correct, current, new, now) ==
    [pc |-> "loaded", word_id |-> word_id, user_answer |-> answer,
     is_correct |-> is_correct, current |-> current, new |-> new,
     next_review |-> now + new.interval]

\* judge the answer and compute the new values
Judged(word_id, answer, is_correct, current, now) ==
    LoadedRequest(word_id, answer, is_correct, current,
                  Advance(current, is_correct), now)

\* SELECT the row, judge the answer, compute the new values and next_review
SubmitLoad(r, word_id, user_answer) ==
    /\ req[r].pc = "idle"
    \* the answers in flight or recorded so far are fewer than MaxSubmitted
    /\ Len(reviews) + Cardinality({q \in Requests : req[q].pc # "idle"})
           < MaxSubmitted
    \* the threads of the server are interchangeable: the first free one
    /\ \A q \in Requests : q < r => req[q].pc # "idle"
    /\ ops < MaxOps
    /\ word_id \in Words
    /\ req' = [req EXCEPT ![r] =
                 Judged(word_id, Strip(user_answer),
                        fuzzy_match(Strip(user_answer),
                                    WordText[word_id].indonesian),
                        LoadedState(words[word_id]), clock)]
    /\ ops' = ops + 1
    /\ UNCHANGED <<schema, clock, words, reviews, reply>>
    /\ UNCHANGED run
    /\ UNCHANGED library
    /\ UNCHANGED tracking
    /\ UNCHANGED resilience

\* the feedback text of the response
IntervalIncrease(is_correct, new_interval, current_interval) ==
    IF is_correct
    THEN IF new_interval > current_interval
         THEN <<"+", new_interval - current_interval, "min">>
         ELSE <<"Same interval">>
    ELSE <<"Reset to", new_interval, "min">>

\* a connection in autocommit mode: the UPDATE that was issued stays
SubmitAbort_autocommit(r, error) ==
    /\ req' = [req EXCEPT ![r] = IdleRequest]
    /\ reply' = Reply("submit_answer_duolingo", 500, error)
    /\ words' = IF req[r].pc = "updated"
                THEN [words EXCEPT ![req[r].word_id] =
                        WordRow(req[r].new, req[r].next_review,
                                req[r].last_reviewed)]
                ELSE words
    /\ UNCHANGED <<schema, clock, reviews, ops>>
    /\ UNCHANGED run
    /\ UNCHANGED library
    /\ UNCHANGED tracking
    /\ UNCHANGED resilience

\* variant: the interval the UPDATE wrote stays after the failure
SubmitAbort_partial(r, error) ==
    /\ req' = [req EXCEPT ![r] = IdleRequest]
    /\ reply' = Reply("submit_answer_duolingo", 500, error)
    /\ words' = IF req[r].pc = "updated"
                THEN [words EXCEPT ![req[r].word_id].interval = req[r].new.interval,
                                   ![req[r].word_id].repetitions = req[r].new.repetitions]
                ELSE words
    /\ UNCHANGED <<schema, clock, reviews, ops>>
    /\ UNCHANGED run
    /\ UNCHANGED library
    /\ UNCHANGED tracking
    /\ UNCHANGED resilience

\* the except branch: 500; the connection is closed at teardown without a
\* commit, which rolls its transaction back
SubmitAbort(r, error) ==
    /\ req' = [req EXCEPT ![r] = IdleRequest]
    /\ reply' = Reply("submit_answer_duolingo", 500, error)
    /\ UNCHANGED <<schema, clock, words, reviews, ops>>
    /\ UNCHANGED run
    /\ UNCHANGED library
    /\ UNCHANGED tracking
    /\ UNCHANGED resilience

\* the connection that holds the write lock of the database: the one whose
\* UPDATE opened a transaction that is neither committed nor rolled back
WriteLocked == \E q \in Requests : req[q].pc = "updated"

\* the locals of a request whose UPDATE is issued; last_reviewed is the
\* second datetime.now() of the handler
UpdatedRequest(loaded, now) ==
    [pc |-> "updated", word_id |-> loaded.word_id,
     user_answer |-> loaded.user_answer, is_correct |-> loaded.is_correct,
     current |-> loaded.current, new |-> loaded.new,
     next_review |-> loaded.next_review, last_reviewed |-> now]

\* UPDATE words SET ..., last_reviewed = datetime.now() WHERE id = ?
\* The statement opens the transaction of the connection and takes the write
\* lock; the row it writes is seen by no other connection before the commit.
\* With the lock held by another connection the statement raises.
SubmitUpdate(r) ==
    /\ req[r].pc = "loaded"
    /\ IF WriteLocked
       THEN SubmitAbort(r, "database is locked")
       ELSE /\ req' = [req EXCEPT ![r] = UpdatedRequest(req[r], clock)]
            /\ UNCHANGED <<schema, clock, words, reviews, reply, ops>>
            /\ UNCHANGED run
            /\ UNCHANGED library
            /\ UNCHANGED tracking
            /\ UNCHANGED resilience

\* the row INSERT INTO reviews (word_id, correct, response_time, user_answer)
\* adds; review_time is the CURRENT_TIMESTAMP default of the column
ReviewEvent(updated, now) ==
    [word_id |-> updated.word_id, review_time |-> now,
     correct |-> updated.is_correct, response_time |-> 0,
     user_answer |-> updated.user_answer]

\* the JSON of the 200 response
SubmitResponse(updated) ==
    [correct |-> updated.is_correct,
     actual_answer |-> WordText[updated.word_id].indonesian,
     next_review_in |-> updated.next_review,
     streak |-> updated.new.streak,
     interval_increase |->
         IntervalIncrease(updated.is_correct, updated.new.interval,
                          updated.current.interval)]

\* a commit that keeps the updated row and drops the inserted row
SubmitWrite_no_event(r) ==
    /\ req[r].pc = "updated"
    /\ IF schema = "duolingo"
       THEN /\ words' = [words EXCEPT ![req[r].word_id] =
                           WordRow(req[r].new, req[r].next_review,
                                   req[r].last_reviewed)]
            /\ reviews' = reviews
            /\ req' = [req EXCEPT ![r] = IdleRequest]
            /\ reply' = Reply("submit_answer_duolingo", 200,
                              SubmitResponse(req[r]))
            /\ UNCHANGED <<schema, clock, ops>>
            /\ UNCHANGED run
            /\ UNCHANGED library
            /\ UNCHANGED tracking
            /\ UNCHANGED resilience
       ELSE SubmitAbort(r, "table reviews has no column named correct")

\* variant: the UPDATE has no WHERE clause, every row gets the new values
SubmitWrite_all_rows(r) ==
    /\ req[r].pc = "updated"
    /\ IF schema = "duolingo"
       THEN /\ words' = [w \in Words |->
                           WordRow(req[r].new, req[r].next_review,
                                   req[r].last_reviewed)]
            /\ reviews' = Append(reviews, ReviewEvent(req[r], clock))
            /\ req' = [req EXCEPT ![r] = IdleRequest]
            /\ reply' = Reply("submit_answer_duolingo", 200,
                              SubmitResponse(req[r]))
            /\ UNCHANGED <<schema, clock, ops>>
            /\ UNCHANGED run
            /\ UNCHANGED library
            /\ UNCHANGED tracking
            /\ UNCHANGED resilience
       ELSE SubmitAbort(r, "table reviews has no column named correct")

\* INSERT INTO reviews ..., conn.commit() and the response: the commit makes
\* the updated row and the inserted row visible together
SubmitWrite(r) ==
    /\ req[r].pc = "updated"
    /\ IF schema = "duolingo"
       THEN /\ words' = [words EXCEPT ![req[r].word_id] =
                           WordRow(req[r].new, req[r].next_review,
                                   req[r].last_reviewed)]
            /\ reviews' = Append(reviews, ReviewEvent(req[r], clock))
            /\ req' = [req EXCEPT ![r] = IdleRequest]
            /\ reply' = Reply("submit_answer_duolingo", 200,
                              SubmitResponse(req[r]))
            /\ UNCHANGED <<schema, clock, ops>>
            /\ UNCHANGED run
            /\ UNCHANGED library
            /\ UNCHANGED tracking
            /\ UNCHANGED resilience
       ELSE SubmitAbort(r, "table reviews has no column named correct")

\* a statement or the commit raises (the disk fails, the database is locked
\* by another process): the UPDATE, or, once the UPDATE is issued, the INSERT
\* or the commit
SubmitStoreFailure(r) ==
    /\ req[r].pc \in {"loaded", "updated"}
    /\ SubmitAbort(r, IF req[r].pc = "loaded"
                      THEN "UPDATE words: disk I/O error"
                      ELSE "INSERT INTO reviews: disk I/O error")

(***************************************************************************)
(* The server: GET /api/next-word (get_next_word).                         *)
(***************************************************************************)
\* WHERE w.next_review IS NULL OR w.next_review <= now
DueWords(now) ==
    {w \in Words : words[w].next_review = NULL \/ words[w].next_review <= now}

\* ORDER BY CASE WHEN w.next_review IS NULL THEN 0 ELSE 1 END, w.next_review ASC
NextWordBefore(v, w) ==
    LET group(x) == IF words[x].next_review = NULL THEN 0 ELSE 1
    IN  \/ group(v) < group(w)
        \/ (group(v) = group(w) /\ words[v].next_review < words[w].next_review)

\* LIMIT 1 and the response; rows the ORDER BY leaves tied come in any order
GetNextWord ==
    /\ ops < MaxOps
    /\ ops' = ops + 1
    /\ LET due == DueWords(clock)
       IN  IF due = {}
           THEN reply' = Reply("get_next_word", 404, "No words due for review")
           ELSE \E w \in due :
                   /\ \A v \in due : ~NextWordBefore(v, w)
                   /\ reply' = Reply("get_next_word", 200,
                                     [id |-> w, interval |-> words[w].interval,
                                      repetitions |-> words[w].repetitions,
                                      ease_factor |-> words[w].ease_factor,
                                      next_review |-> words[w].next_review,
                                      streak |-> words[w].streak])
    /\ UNCHANGED <<schema, clock, words, reviews, req>>
    /\ UNCHANGED run
    /\ UNCHANGED library
    /\ UNCHANGED tracking
    /\ UNCHANGED resilience

(***************************************************************************)
(* The server: POST /api/review (post_review).  Its statements name the    *)
(* columns score, next_review_date, interval_days, ease_factor,            *)
(* repetition_count and review_date of reviews: they run on a database     *)
(* file whose reviews table has them (schema "legacy") and raise on the    *)
(* table init_db creates (schema "duolingo").                              *)
(***************************************************************************)
\* the scores a client sends
Scores == {0, 5}

\* ORDER BY review_date DESC LIMIT 1 over the rows of word_id: the indexes of
\* the rows that may come first
LatestReviews(word_id) ==
    {i \in 1..Len(reviews) :
        /\ reviews[i].word_id = word_id
        /\ \A j \in 1..Len(reviews) :
              reviews[j].word_id = word_id =>
                  reviews[j].review_date <= reviews[i].review_date}

\* row[0] if row else 2.5, row[1] if row else 1, row[2] if row else 0
ReviewState(row) ==
    SchedState(row.interval_days, row.ease_factor, row.repetition_count, 0)

\* data is empty, or word_id or score is missing: 400
PostReviewBadRequest ==
    /\ ops < MaxOps
    /\ ops' = ops + 1
    /\ reply' = Reply("post_review", 400, "bad request")
    /\ UNCHANGED <<schema, clock, words, reviews, req>>
    /\ UNCHANGED run
    /\ UNCHANGED library
    /\ UNCHANGED tracking
    /\ UNCHANGED resilience

\* the row post_review inserts and its response
ReviewRow(word_id, score, result, now) ==
    [word_id |-> word_id, score |-> score,
     next_review_date |-> now + result.interval * DayLen,
     interval_days |-> result.interval,
     ease_factor |-> result.ease_factor,
     repetition_count |-> result.repetitions,
     review_date |-> now]

\* result['next_review_date'] of calculate_next_review_legacy:
\* now + timedelta(minutes=interval)
ReviewReply(result, now) ==
    Reply("post_review", 200,
          [success |-> TRUE, next_review |-> now + result.interval])

\* the rows the SELECT may deliver, or the defaults when there is none
CurrentReviewStates(word_id) ==
    IF LatestReviews(word_id) = {}
    THEN {SchedState(1, Lit(250), 0, 0)}
    ELSE {ReviewState(reviews[i]) : i \in LatestReviews(word_id)}

\* SELECT the latest row, calculate_next_review, INSERT, commit
PostReview(word_id, score) ==
    /\ ops < MaxOps
    /\ ops' = ops + 1
    /\ IF schema # "legacy"
       THEN /\ reply' = Reply("post_review", 500, "no such column: ease_factor")
            /\ UNCHANGED reviews
       ELSE \E result \in {AdvanceQuality(current, score) :
                               current \in CurrentReviewStates(word_id)} :
               /\ reviews' = Append(reviews,
                                    ReviewRow(word_id, score, result, clock))
               /\ reply' = ReviewReply(result, clock)
    /\ UNCHANGED <<schema, clock, words, req>>
    /\ UNCHANGED run
    /\ UNCHANGED library
    /\ UNCHANGED tracking
    /\ UNCHANGED resilience

(***************************************************************************)
(* The server: GET /session/start (start_session).                         *)
(***************************************************************************)
\* datetime.now().date(): the day of a datetime
DateOf(t) == t \div DayLen

\* words w LEFT JOIN reviews r ON w.id = r.word_id: one row per review of a
\* word, and one row with NULL r columns for a word without reviews
JoinedRows ==
    {[word_id |-> reviews[i].word_id, review |-> i,
      next_review_date |-> reviews[i].next_review_date,
      ease_factor |-> reviews[i].ease_factor] :
        i \in {j \in 1..Len(reviews) : reviews[j].word_id \in Words}}
    \cup
    {[word_id |-> w, review |-> 0, next_review_date |-> NULL,
      ease_factor |-> Dbl(0, 0)] :
        w \in {v \in Words : \A j \in 1..Len(reviews) : reviews[j].word_id # v}}

\* r.next_review_date < today, r.next_review_date <= today: the column holds
\* the text of a datetime and today is the text of a date, so both
\* comparisons hold exactly when the datetime lies on an earlier day
BeforeDay(next_review_date, today) ==
    /\ next_review_date # NULL
    /\ DateOf(next_review_date) < today

\* WHERE r.next_review_date IS NULL OR r.next_review_date <= today
SessionRows(today) ==
    {row \in JoinedRows :
        row.next_review_date = NULL \/ BeforeDay(row.next_review_date, today)}

\* ORDER BY CASE WHEN r.next_review_date < today THEN 0 ELSE 1 END,
\*          r.next_review_date ASC, w.difficulty_score DESC, r.ease_factor ASC
SessionBefore(x, y, today) ==
    LET group(row) == IF BeforeDay(row.next_review_date, today) THEN 0 ELSE 1
        difficulty(row) == WordText[row.word_id].difficulty_score
    IN  \/ group(x) < group(y)
        \/ /\ group(x) = group(y)
           /\ \/ x.next_review_date < y.next_review_date
              \/ /\ x.next_review_date = y.next_review_date
                 /\ \/ difficulty(x) > difficulty(y)
                    \/ /\ difficulty(x) = difficulty(y)
                       /\ DblLess(x.ease_factor, y.ease_factor)

\* the orders in which the ORDER BY may deliver the rows
SessionOrders(today) ==
    LET rows == SessionRows(today)
        n == Cardinality(rows)
    IN  {f \in [1..n -> rows] :
            /\ \A i, j \in 1..n : i # j => f[i] # f[j]
            /\ \A i, j \in 1..n : i < j => ~SessionBefore(f[j], f[i], today)}

\* LIMIT size: a negative LIMIT is no limit, LIMIT 0 is no row
Limit(rows, size) ==
    IF size < 0 \/ size >= Len(rows) THEN rows ELSE SubSeq(rows, 1, size)

\* the sizes a client asks for
SessionSizes == {0 - 1, 0, 1, 2}

\* user_id is missing or 0: 400
StartSessionBadRequest ==
    /\ ops < MaxOps
    /\ ops' = ops + 1
    /\ reply' = Reply("start_session", 400, "user_id required")
    /\ UNCHANGED <<schema, clock, words, reviews, req>>
    /\ UNCHANGED run
    /\ UNCHANGED library
    /\ UNCHANGED tracking
    /\ UNCHANGED resilience

\* the query and the items of the response
StartSession(size) ==
    /\ ops < MaxOps
    /\ ops' = ops + 1
    /\ IF schema # "legacy"
       THEN reply' = Reply("start_session", 500,
                           "no such column: r.next_review_date")
       ELSE \E rows \in SessionOrders(DateOf(clock)) :
               LET due_vocab == Limit(rows, size)
               IN  reply' = Reply("start_session", 200,
                       [items |-> [i \in 1..Len(due_vocab) |->
                                       due_vocab[i].word_id]])
    /\ UNCHANGED <<schema, clock, words, reviews, req>>
    /\ UNCHANGED run
    /\ UNCHANGED library
    /\ UNCHANGED tracking
    /\ UNCHANGED resilience

(***************************************************************************)
(* Time and the whole server.                                              *)
(***************************************************************************)
Tick ==
    /\ clock < MaxClock
    /\ clock' = clock + 1
    /\ UNCHANGED <<schema, words, reviews, req, reply, ops>>
    /\ UNCHANGED run
    /\ UNCHANGED library
    /\ UNCHANGED tracking
    /\ UNCHANGED resilience

Init ==
    /\ schema \in {"duolingo", "legacy"}
    /\ InitSystem
    /\ InitRun

Next ==
    \/ SubmitBadRequest
    \/ SubmitNotFound(UnknownWord)
    \/ \E r \in Requests, w \in Words, a \in UserAnswers : SubmitLoad(r, w, a)
    \/ \E r \in Requests : SubmitUpdate(r)
    \/ \E r \in Requests : SubmitWrite(r)
    \/ \E r \in Requests : SubmitStoreFailure(r)
    \/ GetNextWord
    \/ PostReviewBadRequest
    \/ \E w \in Words, score \in Scores : PostReview(w, score)
    \/ StartSessionBadRequest
    \/ \E size \in SessionSizes : StartSession(size)
    \/ Tick

Spec == Init /\ [][Next]_vars

(***************************************************************************)
(* The command-line program: load_due_vocabulary (review_scheduler.py) and *)
(* SRSAlgorithm.get_due_vocab read the tables vocabulary and               *)
(* review_sessions.  The dates of review_sessions are the text of a date   *)
(* (date.isoformat()), as is today: a date is the number of its day.  A    *)
(* call returns its list of rows; reply holds it with status 200.          *)
(***************************************************************************)
\* difficulty_score (in hundredths) of the vocabulary rows of demo_data
VocabDifficulty == <<100, 120, 150, 130>>

Vocabulary == 1..NumVocab

\* alice and bob
Users == {1, 2}

\* ease_factor of the rows of demo_data
SessionEase == {Lit(230), Lit(250)}

\* the rows review_sessions may hold
SessionRecords ==
    [user_id : Users, vocab_id : Vocabulary,
     next_review_date : 0..MaxDay, ease_factor : SessionEase]

\* vocabulary v JOIN review_sessions rs ON v.id = rs.vocab_id
\* WHERE rs.user_id = ? AND rs.next_review_date <= today: the row numbers
DueSessions(user_id, today) ==
    {i \in 1..Len(review_sessions) :
        /\ review_sessions[i].vocab_id \in Vocabulary
        /\ review_sessions[i].user_id = user_id
        /\ review_sessions[i].next_review_date <= today}

\* an ORDER BY whose third key is v.difficulty_score ASC
DueBefore_difficulty_asc(x, y, today) ==
    LET group(row) == IF row.next_review_date < today THEN 0 ELSE 1
        difficulty(row) == VocabDifficulty[row.vocab_id]
    IN  \/ group(x) < group(y)
        \/ /\ group(x) = group(y)
           /\ \/ x.next_review_date < y.next_review_date
              \/ /\ x.next_review_date = y.next_review_date
                 /\ \/ difficulty(x) < difficulty(y)
                    \/ /\ difficulty(x) = difficulty(y)
                       /\ DblLess(x.ease_factor, y.ease_factor)

\* ORDER BY CASE WHEN rs.next_review_date < today THEN 0 ELSE 1 END,
\*          rs.next_review_date ASC, v.difficulty_score DESC,
\*          rs.ease_factor ASC: row x sorts before row y
DueBefore(x, y, today) ==
    LET group(row) == IF row.next_review_date < today THEN 0 ELSE 1
        difficulty(row) == VocabDifficulty[row.vocab_id]
    IN  \/ group(x) < group(y)
        \/ /\ group(x) = group(y)
           /\ \/ x.next_review_date < y.next_review_date
              \/ /\ x.next_review_date = y.next_review_date
                 /\ \/ difficulty(x) > difficulty(y)
                    \/ /\ difficulty(x) = difficulty(y)
                       /\ DblLess(x.ease_factor, y.ease_factor)

\* the orders in which the ORDER BY may deliver the rows of the set due
DueOrders(due, today) ==
    LET n == Cardinality(due)
    IN  {f \in [1..n -> due] :
            /\ \A i, j \in 1..n : i # j => f[i] # f[j]
            /\ \A i, j \in 1..n :
                  i < j => ~DueBefore(review_sessions[f[j]],
                                      review_sessions[f[i]], today)}

\* the dictionary built from a fetched row
DueVocabEntry(rs) ==
    [vocab_id |-> rs.vocab_id,
     difficulty_score |-> VocabDifficulty[rs.vocab_id],
     next_review_date |-> rs.next_review_date,
     ease_factor |-> rs.ease_factor]

\* the list due_vocab of the rows in the order f
DueVocab(f) == [k \in 1..Len(f) |-> DueVocabEntry(review_sessions[f[k]])]

\* load_due_vocabulary(user_id): a connection of its own, the query, the list
LoadDueVocabulary(user_id) ==
    /\ \E f \in DueOrders(DueSessions(user_id, DateOf(clock)), DateOf(clock)) :
          reply' = Reply("load_due_vocabulary", 200, DueVocab(f))
    /\ UNCHANGED <<schema, clock, words, reviews, req, ops>>
    /\ UNCHANGED run
    /\ UNCHANGED library
    /\ UNCHANGED tracking
    /\ UNCHANGED resilience

\* SRSAlgorithm.get_due_vocab(user_id, db_conn): the same query on db_conn
SrsGetDueVocab(user_id) ==
    /\ \E f \in DueOrders(DueSessions(user_id, DateOf(clock)), DateOf(clock)) :
          reply' = Reply("SRSAlgorithm.get_due_vocab", 200, DueVocab(f))
    /\ UNCHANGED <<schema, clock, words, reviews, req, ops>>
    /\ UNCHANGED run
    /\ UNCHANGED library
    /\ UNCHANGED tracking
    /\ UNCHANGED resilience

\* a database file of the command-line program with NumSessions rows in
\* review_sessions
InitDue ==
    /\ schema = "legacy"
    /\ clock = 0
    /\ words = [w \in Words |-> WordRow(DefaultState, NULL, NULL)]
    /\ reviews = <<>>
    /\ req = [r \in Requests |-> IdleRequest]
    /\ reply = NoReply
    /\ ops = 0
    /\ review_sessions \in [1..NumSessions -> SessionRecords]
    /\ handle = "none"
    /\ InitTracking
    /\ InitResilience
    /\ InitRun

NextDue ==
    \/ \E user_id \in Users : LoadDueVocabulary(user_id)
    \/ \E user_id \in Users : SrsGetDueVocab(user_id)
    \/ Tick

SpecDue == InitDue /\ [][NextDue]_vars

(***************************************************************************)
(* The selections of the server next to SimpleDatabase (database.py): one  *)
(* SimpleDatabase object used by one thread.  connect() opens a connection *)
(* on first use and returns that same object ever after (handle).  A call  *)
(* of a method returns (status 200) or raises (status 500).                *)
(***************************************************************************)
\* GET /api/due-count: SELECT COUNT(*) FROM words
\* WHERE next_review IS NULL OR next_review <= now
GetDueCount ==
    /\ ops < MaxOps
    /\ ops' = ops + 1
    /\ reply' = Reply("get_due_count", 200,
                      [due_count |-> Cardinality(DueWords(clock))])
    /\ UNCHANGED <<schema, clock, words, reviews, req>>
    /\ UNCHANGED run
    /\ UNCHANGED library
    /\ UNCHANGED tracking
    /\ UNCHANGED resilience

\* the row add_review inserts: next_date = datetime.now() +
\* timedelta(days=interval_days)
AddedReview(word_id, score, interval_days, ease_factor, repetition_count, now) ==
    [word_id |-> word_id, score |-> score,
     next_review_date |-> now + interval_days * DayLen,
     interval_days |-> interval_days, ease_factor |-> ease_factor,
     repetition_count |-> repetition_count, review_date |-> now]

\* SimpleDatabase.add_review(word_id, score) with the defaults of its other
\* parameters: INSERT INTO reviews and commit on the cached connection
AddReview(word_id, score) ==
    /\ ops < MaxOps
    /\ ops' = ops + 1
    /\ IF handle = "closed"
       THEN /\ reply' = Reply("SimpleDatabase.add_review", 500,
                              "Cannot operate on a closed database.")
            /\ UNCHANGED reviews
       ELSE IF schema # "legacy"
       THEN /\ reply' = Reply("SimpleDatabase.add_review", 500,
                              "table reviews has no column named score")
            /\ UNCHANGED reviews
       ELSE /\ reviews' = Append(reviews,
                              AddedReview(word_id, score, 1, Lit(250), 0, clock))
            /\ reply' = Reply("SimpleDatabase.add_review", 200,
                              Len(reviews) + 1)
    /\ UNCHANGED <<schema, clock, words, req>>
    /\ UNCHANGED run
    /\ UNCHANGED library
    /\ UNCHANGED tracking
    /\ UNCHANGED resilience

\* the dictionary get_due_vocab builds from a fetched row: row[7] or 2.5
SimpleDueEntry(row) ==
    [vocab_id |-> row.word_id,
     difficulty_score |-> WordText[row.word_id].difficulty_score,
     next_review_date |-> row.next_review_date,
     ease_factor |-> IF row.ease_factor = Dbl(0, 0) THEN Lit(250)
                                                    ELSE row.ease_factor]

\* SimpleDatabase.get_due_vocab(): connect(), the query of start_session
\* without a LIMIT, the list, and conn.close() on the cached connection
SimpleGetDueVocab ==
    /\ ops < MaxOps
    /\ ops' = ops + 1
    /\ IF handle = "closed"
       THEN /\ reply' = Reply("SimpleDatabase.get_due_vocab", 500,
                              "Cannot operate on a closed database.")
            /\ UNCHANGED handle
       ELSE IF schema # "legacy"
       THEN /\ reply' = Reply("SimpleDatabase.get_due_vocab", 500,
                              "no such column: r.next_review_date")
            /\ UNCHANGED handle
       ELSE /\ \E rows \in SessionOrders(DateOf(clock)) :
                  reply' = Reply("SimpleDatabase.get_due_vocab", 200,
                                 [k \in 1..Len(rows) |-> SimpleDueEntry(rows[k])])
            /\ handle' = "closed"
    /\ UNCHANGED <<schema, clock, words, reviews, req, review_sessions>>
    /\ UNCHANGED tracking
    /\ UNCHANGED resilience
    /\ UNCHANGED run

\* the database file after init_db, and a SimpleDatabase object on it:
\* __init__ has called init_database, which opened the connection
InitSelect ==
    /\ schema \in {"duolingo", "legacy"}
    /\ clock = 0
    /\ words = [w \in Words |-> WordRow(DefaultState, NULL, NULL)]
    /\ reviews = <<>>
    /\ req = [r \in Requests |-> IdleRequest]
    /\ reply = NoReply
    /\ ops = 0
    /\ review_sessions = <<>>
    /\ handle = "open"
    /\ InitTracking
    /\ InitResilience
    /\ InitRun

NextSelect ==
    \/ \E w \in Words, score \in Scores : AddReview(w, score)
    \/ SimpleGetDueVocab
    \/ GetNextWord
    \/ GetDueCount
    \/ \E size \in SessionSizes : StartSession(size)
    \/ Tick

SpecSelect == InitSelect /\ [][NextSelect]_vars

(***************************************************************************)
(* The answer judge applied to pairs of texts.                             *)
(***************************************************************************)
\* characters of the texts drawn: two letters, one of them in both cases,
\* and the blank
JudgeAlphabet == {"a", "A", "b", " "}

\* the texts of the scenarios named in the documentation and the tests
ScenarioTexts ==
    {<<"a", "p", "e", "l">>, <<"A", "p", "e", "l", " ">>,
     <<"a", "p", "l", "e">>, <<"a", "p", "p", "l", "e">>,
     <<"x", "y", "z">>, <<"a", "b", "a", "a">>}

JudgeTexts ==
    ScenarioTexts \cup UNION {[1..n -> JudgeAlphabet] : n \in 0..MaxLen}

\* a call of fuzzy_match not yet made
JudgeCall(user_answer, correct_answer) ==
    Reply("fuzzy_match", 0,
          [user_answer |-> user_answer, correct_answer |-> correct_answer])

\* srs.fuzzy_match(user_answer, correct_answer) returns
FuzzyMatch ==
    /\ reply.handler = "fuzzy_match"
    /\ reply.status = 0
    /\ reply' = Reply("fuzzy_match", 200,
                      [user_answer |-> reply.body.user_answer,
                       correct_answer |-> reply.body.correct_answer,
                       correct |-> fuzzy_match(reply.body.user_answer,
                                               reply.body.correct_answer)])
    /\ UNCHANGED <<schema, clock, words, reviews, req, ops>>
    /\ UNCHANGED run
    /\ UNCHANGED library
    /\ UNCHANGED tracking
    /\ UNCHANGED resilience

InitJudge ==
    /\ schema = "duolingo"
    /\ clock = 0
    /\ words = [w \in Words |-> WordRow(DefaultState, NULL, NULL)]
    /\ reviews = <<>>
    /\ req = [r \in Requests |-> IdleRequest]
    /\ reply \in {JudgeCall(u, c) : u \in JudgeTexts, c \in JudgeTexts}
    /\ ops = 0
    /\ InitLibrary
    /\ InitTracking
    /\ InitResilience
    /\ InitRun

NextJudge == FuzzyMatch

SpecJudge == InitJudge /\ [][NextJudge]_vars

(***************************************************************************)
(* The server: POST /api/session/start, /api/session/complete and          *)
(* /api/session/answer (learning_sessions and user_answers tables).        *)
(***************************************************************************)
\* tokens a client sends: "s1" names the session Init may draw, "s2" none
SessionTokens == {"s1", "s2"}

\* a row of learning_sessions as it is inserted: column defaults
SessionRow(session_token) ==
    [session_token |-> session_token, end_time |-> NULL,
     total_questions |-> 0, correct_answers |-> 0, accuracy_rate |-> NULL,
     completed |-> FALSE]

\* total_questions, correct_answers and accuracy_rate (per cent) a client sends
Tallies ==
    {[total_questions |-> 2, correct_answers |-> 1, accuracy_rate |-> 50],
     [total_questions |-> 1, correct_answers |-> 1, accuracy_rate |-> 100]}

\* session_start: no JSON body is 400; otherwise the token sent, or a fresh
\* one, is returned and nothing is stored
SessionStart(data) ==
    /\ ops < MaxOps
    /\ ops' = ops + 1
    /\ reply' = IF data = "none"
                THEN Reply("session_start", 400, "No data provided")
                ELSE Reply("session_start", 200,
                           [status |-> "started",
                            token |-> IF data = "no token" THEN "generated"
                                                           ELSE data])
    /\ UNCHANGED <<schema, clock, words, reviews, req>>
    /\ UNCHANGED run
    /\ UNCHANGED library
    /\ UNCHANGED tracking
    /\ UNCHANGED resilience

\* variant: the UPDATE stores the totals and leaves completed as it was
CompletedRow_open(row, tally, now) ==
    [row EXCEPT !.end_time = now,
                !.total_questions = tally.total_questions,
                !.correct_answers = tally.correct_answers,
                !.accuracy_rate = tally.accuracy_rate]

\* UPDATE learning_sessions SET end_time, totals, completed = 1
\* WHERE session_token = ?
CompletedRow(row, tally, now) ==
    [row EXCEPT !.end_time = now,
                !.total_questions = tally.total_questions,
                !.correct_answers = tally.correct_answers,
                !.accuracy_rate = tally.accuracy_rate,
                !.completed = TRUE]

\* session_complete: a missing field is 400; otherwise the UPDATE, the commit
\* and the number of rows updated
SessionComplete(fields, session_token, tally) ==
    /\ ops < MaxOps
    /\ ops' = ops + 1
    /\ IF fields = "missing"
       THEN /\ reply' = Reply("session_complete", 400, "Missing field")
            /\ UNCHANGED learning_sessions
       ELSE LET hit == {i \in 1..Len(learning_sessions) :
                            learning_sessions[i].session_token = session_token}
            IN  /\ learning_sessions' =
                       [i \in 1..Len(learning_sessions) |->
                           IF i \in hit
                           THEN CompletedRow(learning_sessions[i], tally, clock)
                           ELSE learning_sessions[i]]
                /\ reply' = Reply("session_complete", 200,
                                  [status |-> "completed",
                                   updated |-> Cardinality(hit)])
    /\ UNCHANGED <<schema, clock, words, reviews, req, user_answers>>
    /\ UNCHANGED run
    /\ UNCHANGED library
    /\ UNCHANGED resilience

\* the row INSERT INTO user_answers adds
AnswerRow(session_token, word_id, user_answer, correct, now) ==
    [session_token |-> session_token, word_id |-> word_id,
     user_answer |-> user_answer, correct |-> correct, answered_at |-> now]

\* variant: the handler also clears the streak of the word on a wrong answer
SessionAnswer_streak(fields, session_token, word_id, user_answer, correct) ==
    /\ ops < MaxOps
    /\ ops' = ops + 1
    /\ IF fields = "missing"
       THEN /\ reply' = Reply("session_answer", 400, "Missing field")
            /\ UNCHANGED <<user_answers, words>>
       ELSE IF \A i \in 1..Len(learning_sessions) :
                    learning_sessions[i].session_token # session_token
       THEN /\ reply' = Reply("session_answer", 400, "Invalid session_token")
            /\ UNCHANGED <<user_answers, words>>
       ELSE IF word_id \notin Words
       THEN /\ reply' = Reply("session_answer", 400, "Invalid word_id")
            /\ UNCHANGED <<user_answers, words>>
       ELSE IF fields = "malformed"
       THEN /\ reply' = Reply("session_answer", 500, "Database insertion failed")
            /\ UNCHANGED <<user_answers, words>>
       ELSE /\ user_answers' = Append(user_answers,
                                      AnswerRow(session_token, word_id,
                                                user_answer, correct, clock))
            /\ words' = [words EXCEPT ![word_id].streak =
                            IF correct THEN @ ELSE 0]
            /\ reply' = Reply("session_answer", 200,
                              [status |-> "answer_saved",
                               answer_id |-> Len(user_answers) + 1])
    /\ UNCHANGED <<schema, clock, reviews, req, learning_sessions>>
    /\ UNCHANGED run
    /\ UNCHANGED library
    /\ UNCHANGED resilience

\* variant: the word is not looked up before the INSERT
SessionAnswer_any_word(fields, session_token, word_id, user_answer, correct) ==
    /\ ops < MaxOps
    /\ ops' = ops + 1
    /\ IF fields = "missing"
       THEN /\ reply' = Reply("session_answer", 400, "Missing field")
            /\ UNCHANGED user_answers
       ELSE IF \A i \in 1..Len(learning_sessions) :
                    learning_sessions[i].session_token # session_token
       THEN /\ reply' = Reply("session_answer", 400, "Invalid session_token")
            /\ UNCHANGED user_answers
       ELSE IF fields = "malformed"
       THEN /\ reply' = Reply("session_answer", 500, "Database insertion failed")
            /\ UNCHANGED user_answers
       ELSE /\ user_answers' = Append(user_answers,
                                      AnswerRow(session_token, word_id,
                                                user_answer, correct, clock))
            /\ reply' = Reply("session_answer", 200,
                              [status |-> "answer_saved",
                               answer_id |-> Len(user_answers) + 1])
    /\ UNCHANGED <<schema, clock, words, reviews, req, learning_sessions>>
    /\ UNCHANGED run
    /\ UNCHANGED library
    /\ UNCHANGED resilience

\* session_answer: a missing field, an unknown session or an unknown word is
\* 400; float(response_time) raising is 500 after a rollback; otherwise the
\* INSERT, the commit and the id of the new row
SessionAnswer(fields, session_token, word_id, user_answer, correct) ==
    /\ ops < MaxOps
    /\ ops' = ops + 1
    /\ IF fields = "missing"
       THEN /\ reply' = Reply("session_answer", 400, "Missing field")
            /\ UNCHANGED user_answers
       ELSE IF \A i \in 1..Len(learning_sessions) :
                    learning_sessions[i].session_token # session_token
       THEN /\ reply' = Reply("session_answer", 400, "Invalid session_token")
            /\ UNCHANGED user_answers
       ELSE IF word_id \notin Words
       THEN /\ reply' = Reply("session_answer", 400, "Invalid word_id")
            /\ UNCHANGED user_answers
       ELSE IF fields = "malformed"
       THEN /\ reply' = Reply("session_answer", 500, "Database insertion failed")
            /\ UNCHANGED user_answers
       ELSE /\ user_answers' = Append(user_answers,
                                      AnswerRow(session_token, word_id,
                                                user_answer, correct, clock))
            /\ reply' = Reply("session_answer", 200,
                              [status |-> "answer_saved",
                               answer_id |-> Len(user_answers) + 1])
    /\ UNCHANGED <<schema, clock, words, reviews, req, learning_sessions>>
    /\ UNCHANGED run
    /\ UNCHANGED library
    /\ UNCHANGED resilience

\* shapes of the JSON a client sends to the session handlers
SessionFields == {"complete", "missing", "malformed"}

\* the database with no session, or with the session "s1" open
InitSession ==
    /\ schema \in {"duolingo", "legacy"}
    /\ clock = 0
    /\ words = [w \in Words |-> WordRow(DefaultState, NULL, NULL)]
    /\ reviews = <<>>
    /\ req = [r \in Requests |-> IdleRequest]
    /\ reply = NoReply
    /\ ops = 0
    /\ InitLibrary
    /\ learning_sessions \in {<<>>, <<SessionRow("s1")>>}
    /\ user_answers = <<>>
    /\ InitResilience
    /\ InitRun

\* one answer submission at a time, next to the session handlers, with the
\* clock standing still
NextSession ==
    \/ \E w \in Words, a \in UserAnswers : SubmitLoad(1, w, a)
    \/ SubmitUpdate(1)
    \/ SubmitWrite(1)
    \/ SubmitStoreFailure(1)
    \/ \E w \in Words, score \in Scores : PostReview(w, score)
    \/ \E data \in SessionTokens \cup {"none", "no token"} : SessionStart(data)
    \/ \E fields \in {"complete", "missing"}, token \in SessionTokens,
          tally \in Tallies : SessionComplete(fields, token, tally)
    \/ \E fields \in SessionFields, token \in SessionTokens,
          w \in Words \cup {UnknownWord}, correct \in BOOLEAN :
            SessionAnswer(fields, token, w, WordText[1].indonesian, correct)

SpecSession == InitSession /\ [][NextSession]_vars

(***************************************************************************)
(* A client that submits answers for one word, one at a time, and submits  *)
(* again after a 500.                                                      *)
(***************************************************************************)
\* the word the client is asked
RetriedWord == 1

NextRetry ==
    \/ \E a \in UserAnswers : SubmitLoad(1, RetriedWord, a)
    \/ SubmitUpdate(1)
    \/ SubmitWrite(1)
    \/ SubmitStoreFailure(1)
    \/ Tick

InitRetry ==
    /\ schema = "duolingo"
    /\ InitSystem
    /\ InitRun

SpecRetry == InitRetry /\ [][NextRetry]_vars


(***************************************************************************)
(* database_resilience.py: the circuit breaker of the PostgreSQL           *)
(* connection.  Times are in minutes, as clock is.                         *)
(***************************************************************************)
\* CircuitBreaker(failure_threshold=5, ...), DB_CIRCUIT_BREAKER_FAILURES
failure_threshold == 5

\* recovery_timeout = 60 seconds, DB_CIRCUIT_BREAKER_RECOVERY
recovery_timeout == 1

\* timedelta.seconds of now - last_failure_time: the part of the difference
\* below one day, the days of the difference are a field of their own
seconds(now, last_failure_time) == (now - last_failure_time) % DayLen

\* can_attempt(): <<returned value, breaker afterwards>>
can_attempt(b, now) ==
    CASE b.state = "closed" -> <<TRUE, b>>
      [] b.state = "open" ->
            IF b.last_failure_time # NULL
               /\ seconds(now, b.last_failure_time) >= recovery_timeout
            THEN <<TRUE, [b EXCEPT !.state = "half-open"]>>
            ELSE <<FALSE, b>>
      [] OTHER -> <<TRUE, b>>

record_success(b) == [b EXCEPT !.failure_count = 0, !.state = "closed"]

record_failure(b, now) ==
    LET failure_count == b.failure_count + 1
    IN  [state |-> IF failure_count >= failure_threshold
                   THEN "open" ELSE b.state,
         failure_count |-> failure_count,
         last_failure_time |-> now]

\* one call of a method of the breaker; the scheduling state, the tables
\* and the connection state are not touched
BreakerCall(method, result, b) ==
    /\ ops < MaxCalls
    /\ ops' = ops + 1
    /\ breaker' = b
    /\ reply' = [handler |-> method, status |-> 0, result |-> result]
    /\ UNCHANGED <<schema, clock, words, reviews, req, link>>
    /\ UNCHANGED run
    /\ UNCHANGED library
    /\ UNCHANGED tracking

CanAttempt ==
    BreakerCall("can_attempt", can_attempt(breaker, clock)[1],
                can_attempt(breaker, clock)[2])

RecordSuccess == BreakerCall("record_success", NULL, record_success(breaker))

RecordFailure ==
    BreakerCall("record_failure", NULL, record_failure(breaker, clock))

InitBreaker ==
    /\ schema = "duolingo"
    /\ InitSystem
    /\ InitRun

NextBreaker == CanAttempt \/ RecordSuccess \/ RecordFailure \/ Tick

SpecBreaker == InitBreaker /\ [][NextBreaker]_vars


(***************************************************************************)
(* database_resilience.py: get_connection and the three connections it     *)
(* tries.  A call is over within the minute it starts in: the back-off     *)
(* sleeps of one call add up to 6 seconds.                                 *)
(***************************************************************************)
\* DB_RETRY_ATTEMPTS
retry_attempts == 3

\* what psycopg2.connect and the SELECT 1 after it end in: a connection,
\* an exception, or the alarm of timeout_context
Outcomes == {"connected", "refused", "timeout"}

\* DATABASE_URL is set or not, psycopg2 can be imported or not
Environments == [database_url : BOOLEAN, psycopg2 : BOOLEAN]

\* connect_postgresql(): the breaker and the DatabaseResilience object
\* afterwards, conn "postgresql" or "none" (None); attempts lists, for each
\* psycopg2.connect of this call, the breaker it was made under
connect_postgresql(self, b, env, results, now) ==
    LET asked == can_attempt(b, now)
        start == [self |-> [self EXCEPT !.conn = "none", !.attempts = <<>>,
                                        !.sqlite = "untried"],
                  breaker |-> asked[2], done |-> FALSE]
        attempt[k \in 0..retry_attempts] ==
            IF k = 0 THEN start
            ELSE LET s == attempt[k - 1]
                     made == Append(s.self.attempts,
                                    [breaker |-> s.breaker, at |-> now,
                                     result |-> results[k]])
                 IN  CASE s.done -> s
                       [] ~ env.psycopg2 -> [s EXCEPT !.done = TRUE]
                       [] results[k] = "connected" ->
                            [self |-> [s.self EXCEPT
                                          !.current_db_type = "postgresql",
                                          !.conn = "postgresql",
                                          !.attempts = made],
                             breaker |-> record_success(s.breaker),
                             done |-> TRUE]
                       [] results[k] = "timeout" ->
                            [self |-> [s.self EXCEPT !.attempts = made],
                             breaker |-> record_failure(s.breaker, now),
                             done |-> FALSE]
                       [] OTHER ->
                            [self |-> [s.self EXCEPT
                                          !.attempts = made,
                                          !.connection_failures = @ + 1],
                             breaker |-> record_failure(s.breaker, now),
                             done |-> FALSE]
    IN  IF ~ asked[1] \/ ~ env.database_url
        THEN [self |-> start.self, breaker |-> b]
        ELSE [self |-> attempt[retry_attempts].self,
              breaker |-> attempt[retry_attempts].breaker]

\* connect_sqlite(): conn "sqlite" or "none" (None)
connect_sqlite(self, sqlite_ok) ==
    IF sqlite_ok
    THEN [self EXCEPT !.current_db_type = "sqlite", !.conn = "sqlite",
                      !.sqlite = "connected"]
    ELSE [self EXCEPT !.connection_failures = @ + 1, !.conn = "none",
                      !.sqlite = "failed"]

create_mock_connection(self) ==
    [self EXCEPT !.current_db_type = "mock", !.conn = "mock"]

\* get_connection() that returns what connect_sqlite returned
get_connection_no_mock(self, b, env, results, sqlite_ok, now) ==
    LET pg == connect_postgresql(self, b, env, results, now)
    IN  IF pg.self.conn # "none" THEN pg
        ELSE [self |-> connect_sqlite(pg.self, sqlite_ok),
              breaker |-> pg.breaker]

\* get_connection(): PostgreSQL, then SQLite, then the mock
get_connection(self, b, env, results, sqlite_ok, now) ==
    LET pg == connect_postgresql(self, b, env, results, now)
        lite == connect_sqlite(pg.self, sqlite_ok)
    IN  CASE pg.self.conn # "none" -> pg
          [] lite.conn # "none" -> [self |-> lite, breaker |-> pg.breaker]
          [] OTHER -> [self |-> create_mock_connection(lite),
                       breaker |-> pg.breaker]

\* one call of get_resilient_connection()
GetConnection(env, results, sqlite_ok) ==
    /\ ops < MaxOps
    /\ ops' = ops + 1
    /\ LET got == get_connection(link, breaker, env, results, sqlite_ok, clock)
       IN  /\ link' = got.self
           /\ breaker' = got.breaker
    /\ reply' = [handler |-> "get_connection", status |-> 0]
    /\ UNCHANGED <<schema, clock, words, reviews, req>>
    /\ UNCHANGED run
    /\ UNCHANGED library
    /\ UNCHANGED tracking

NextConnect ==
    \/ \E env \in Environments, results \in [1..retry_attempts -> Outcomes],
          sqlite_ok \in BOOLEAN : GetConnection(env, results, sqlite_ok)
    \/ Tick

SpecConnect == InitBreaker /\ [][NextConnect]_vars

(***************************************************************************)
(* Properties of the boolean rule (SpecValid, SpecDefault).                *)
(***************************************************************************)
Max(a, b) == IF a > b THEN a ELSE b

\* n is an integer nearest to i * e
IsNearest(n, i, e) == 100 * n - 50 <= i * e.h /\ i * e.h <= 100 * n + 50

\* C2: under the boolean rule, from any state with ease factor in
\* [1.3, 3.0], the ease factor is in [1.3, 3.0] after every sequence of
\* correct and incorrect answers.
C2_EaseWithinClamp ==
    DblLeq(Lit(130), sched.ease_factor) /\ DblLeq(sched.ease_factor, Lit(300))

\* a correct answer at 2.95 or above is cut back to 3.0, after earlier answers
C2_Witness ==
    /\ outcome = "correct"
    /\ answers >= 2
    /\ DblLess(Lit(290), before.ease_factor)
    /\ DblLess(before.ease_factor, Lit(300))
    /\ sched.ease_factor = Lit(300)

\* C3: an incorrect answer leaves repetitions = 0 and streak = 0, so the
\* repetition count is 0 whenever the most recent outcome was incorrect.
C3_IncorrectResets ==
    outcome = "incorrect" => (sched.repetitions = 0 /\ sched.streak = 0)

C3_Witness ==
    /\ outcome = "incorrect"
    /\ before.repetitions >= 2
    /\ before.streak >= 2
    /\ sched.repetitions = 0
    /\ sched.streak = 0

\* C4: a correct answer adds 1 to repetitions and streak, sets the ease
\* factor to min(ease + 0.1, 3.0) and the interval to 1 (first repetition),
\* 3 (second) or the product of the previous interval and the previous ease
\* factor rounded to an integer (third and later); the default state gives
\* {1, 2.6, 1, 1} and a second correct answer gives repetitions 2,
\* interval 3, ease 2.7.
C4_CorrectTransition ==
    outcome = "correct" =>
        /\ sched.repetitions = before.repetitions + 1
        /\ sched.streak = before.streak + 1
        /\ sched.ease_factor = DblMin(DblAdd(before.ease_factor, Lit(10)), Lit(300))
        /\ (sched.repetitions = 1 => sched.interval = 1)
        /\ (sched.repetitions = 2 => sched.interval = 3)
        /\ (sched.repetitions >= 3 =>
                IsNearest(sched.interval, before.interval, before.ease_factor))
        /\ (before = SchedState(1, Lit(250), 0, 0) =>
                sched = SchedState(1, Lit(260), 1, 1))
        /\ (before = SchedState(1, Lit(260), 1, 1) =>
                sched = SchedState(3, Lit(270), 2, 2))

\* the second correct answer from the default state
C4_Witness ==
    /\ outcome = "correct"
    /\ answers = 2
    /\ before = SchedState(1, Lit(260), 1, 1)
    /\ sched = SchedState(3, Lit(270), 2, 2)

\* C5: an incorrect answer sets the interval to max(1, previous interval
\* halved, as an integer) and the ease factor to max(ease - 0.2, 1.3);
\* {10, 2.0, 3, 3} becomes {5, 1.8, 0, 0}.
C5_IncorrectTransition ==
    outcome = "incorrect" =>
        /\ sched.interval = Max(1, before.interval \div 2)
        /\ sched.ease_factor = DblMax(DblSub(before.ease_factor, Lit(20)), Lit(130))
        /\ (before = SchedState(10, Lit(200), 3, 3) =>
                sched = SchedState(5, Lit(180), 0, 0))

C5_Witness ==
    /\ outcome = "incorrect"
    /\ before = SchedState(10, Lit(200), 3, 3)
    /\ sched = SchedState(5, Lit(180), 0, 0)

\* C6: in every state reached from the default state by answers under the
\* boolean rule or by reviews under the quality-scored rule, the interval
\* is an integer >= 1.
C6_IntervalAtLeastOne == sched.interval \in Nat /\ sched.interval >= 1

\* the halving of interval 1 is held at 1
C6_Witness ==
    /\ outcome = "incorrect"
    /\ answers >= 2
    /\ before.interval = 1
    /\ sched.interval = 1

\* C7 as stated: for every valid state a correct answer yields an interval
\* >= 1 and, when the new repetition count is 2 or more, >= 3.
C7_Original ==
    outcome = "correct" =>
        /\ sched.interval >= 1
        /\ (sched.repetitions >= 2 => sched.interval >= 3)

\* C7 amended: the same for every valid state whose interval is at least 2
\* whenever its repetition count is 2 or more.
C7_Amended ==
    (outcome = "correct" /\ (before.repetitions >= 2 => before.interval >= 2)) =>
        /\ sched.interval >= 1
        /\ (sched.repetitions >= 2 => sched.interval >= 3)

\* interval 2 at the lowest ease factor: 2 * 1.3 rounds to 3
C7_Witness ==
    /\ outcome = "correct"
    /\ before.repetitions >= 2
    /\ before.interval = 2
    /\ before.ease_factor = Lit(130)
    /\ sched.interval = 3

\* C8: when a correct answer brings the repetition count to 3 or more and
\* previous interval x ease factor is exactly halfway between two integers,
\* the new interval is the one away from zero.
C8_HalfAwayFromZero ==
    (/\ outcome = "correct"
     /\ sched.repetitions >= 3
     /\ (before.interval * before.ease_factor.h) % 100 = 50
     /\ before.ease_factor.d = 0) =>
        sched.interval = (before.interval * before.ease_factor.h + 50) \div 100

\* the scheduling columns of a row of words
Scheduling(word_row) ==
    SchedState(word_row.interval, word_row.ease_factor,
               word_row.repetitions, word_row.streak)

\* the committed answers for word w: the indexes of its rows in reviews
AnswersFor(w) == {i \in 1..Len(reviews) : reviews[i].word_id = w}

\* the orders in which the answers of a set of rows can be applied
SerialOrders(rows) ==
    {p \in [1..Cardinality(rows) -> rows] :
        \A i, j \in 1..Cardinality(rows) : i # j => p[i] # p[j]}

\* the default state advanced by the answers of the rows, in the order p
Replay(p) ==
    LET state[n \in 0..Len(p)] ==
            IF n = 0 THEN DefaultState
            ELSE Advance(state[n - 1], reviews[p[n]].correct)
    IN  state[Len(p)]

\* C1: the persisted scheduling state of an item is the result of applying
\* the answers submitted for it one after the other in some order, also when
\* two submissions for the item run concurrently: no update is lost.
C1_NoLostUpdate ==
    schema = "duolingo" =>
        \A w \in Words :
            \E p \in SerialOrders(AnswersFor(w)) :
                Scheduling(words[w]) = Replay(p)

\* an item is due at now: nextDueAt is absent, or nextDueAt <= now
ItemDue(next_due, now) == next_due = NULL \/ next_due <= now

\* the latest review of word w in the reviews start_session joins, 0 if none
LastReview(w) ==
    IF \E i \in 1..Len(reviews) : reviews[i].word_id = w
    THEN CHOOSE i \in 1..Len(reviews) :
            /\ reviews[i].word_id = w
            /\ \A j \in 1..Len(reviews) : reviews[j].word_id = w => j <= i
    ELSE 0

\* nextDueAt of word w as start_session reads it
SessionNextDue(w) ==
    IF LastReview(w) = 0 THEN NULL ELSE reviews[LastReview(w)].next_review_date

\* the ids a selection step returned, in order (none when it failed)
Returned(response) ==
    IF response.status # 200 THEN <<>>
    ELSE IF response.handler = "get_next_word" THEN <<response.body.id>>
    ELSE response.body.items

\* C9: a due selection at time now returns an item only if its nextDueAt is
\* absent or <= now (inclusive), and every such item is returned unless the
\* limit cuts it.
C9_DueSelection ==
    [][/\ GetNextWord =>
            LET items == Returned(reply')
            IN  /\ \A i \in 1..Len(items) :
                      ItemDue(words[items[i]].next_review, clock)
                /\ Len(items) < 1 =>
                      \A w \in Words : ~ItemDue(words[w].next_review, clock)
       /\ \A size \in SessionSizes :
            StartSession(size) =>
                LET items == Returned(reply')
                IN  /\ \A i \in 1..Len(items) :
                          ItemDue(SessionNextDue(items[i]), clock)
                    /\ Len(items) < size =>
                          \A w \in Words :
                              ItemDue(SessionNextDue(w), clock) =>
                                  \E i \in 1..Len(items) : items[i] = w
      ]_vars

\* every never-reviewed item stands before position i of the returned items
NeverReviewedBefore(items, i, never) ==
    \A w \in never : \E j \in 1..(i - 1) : items[j] = w

C13_LimitRejected ==
    [][\A size \in SessionSizes :
          (schema = "legacy" /\ size <= 0 /\ StartSession(size)) =>
              /\ reply'.status = 400
              /\ Returned(reply') = <<>>
      ]_vars

\* item v is more urgent than item w: v was never reviewed and w was, or
\* both have a nextDueAt and that of v is the earlier
MoreUrgent(v, w) ==
    /\ SessionNextDue(w) # NULL
    /\ \/ SessionNextDue(v) = NULL
       \/ SessionNextDue(v) < SessionNextDue(w)

ItemIds(rows) == [i \in 1..Len(rows) |-> rows[i].word_id]

TieKeys(w) ==
    <<SessionNextDue(w), WordText[w].difficulty_score,
      IF LastReview(w) = 0 THEN Dbl(0, 0)
      ELSE reviews[LastReview(w)].ease_factor>>

\* item w has one row in the join of start_session
SingleRow(w) ==
    Cardinality({i \in 1..Len(reviews) : reviews[i].word_id = w}) <= 1

C19_SameNow ==
    [][\A r \in Requests :
          (SubmitWrite(r) /\ reply'.status = 200) =>
              LET row == words'[req[r].word_id]
              IN  /\ row.interval = req[r].new.interval
                  /\ row.next_review = row.last_reviewed + row.interval
      ]_vars

\* C17: if the store fails at any point while an answer is being persisted
\* (after the scheduling-state update was issued, or while the review event is
\* inserted), the item's previously persisted scheduling state is unchanged,
\* no review event is recorded, and the caller receives an error.
C17_FailureLeavesState ==
    [][\A r \in Requests :
          SubmitStoreFailure(r) =>
              /\ words'[req[r].word_id] = words[req[r].word_id]
              /\ reviews' = reviews
              /\ reply'.handler = "submit_answer_duolingo"
              /\ reply'.status = 500
      ]_vars

\* a store failure after the UPDATE was issued, in a database where answers
\* are otherwise persisted
C17_Witness ==
    /\ schema = "duolingo"
    /\ reply.status = 500
    /\ reply.body = "INSERT INTO reviews: disk I/O error"
    /\ Len(reviews) = 1

\* C18: every successfully processed answer submission appends exactly one
\* review event for that item, and no operation modifies or deletes an
\* existing event: every step leaves the log as it is or extends it by the
\* one event of the answer it processed.
C18_EventLog ==
    [][/\ Len(reviews') >= Len(reviews)
       /\ SubSeq(reviews', 1, Len(reviews)) = reviews
       /\ reviews' # reviews =>
             /\ reply'.status = 200
             /\ reply'.handler \in {"submit_answer_duolingo", "post_review"}
       /\ \A r \in Requests :
             (reply'.status = 200 /\ SubmitWrite(r)) =>
                 /\ Len(reviews') = Len(reviews) + 1
                 /\ reviews'[Len(reviews')].word_id = req[r].word_id
       /\ \A w \in Words : \A score \in Scores :
             (reply'.status = 200 /\ PostReview(w, score)) =>
                 /\ Len(reviews') = Len(reviews) + 1
                 /\ reviews'[Len(reviews')].word_id = w
      ]_vars

\* two answers for one item were processed, one after the other
C18_Witness ==
    /\ reply.status = 200
    /\ reply.handler \in {"submit_answer_duolingo", "post_review"}
    /\ Len(reviews) = 2
    /\ reviews[1].word_id = reviews[2].word_id

\* entry x of a due list may stand before entry y at the day now: x is in
\* the earlier group (due before now, then due at now), or in the same group
\* and not later by nextDueAt ascending, difficulty descending, ease ascending
InDueOrder(x, y, now) ==
    LET group(e) == IF e.next_review_date < now THEN 0 ELSE 1
    IN  \/ group(x) < group(y)
        \/ /\ group(x) = group(y)
           /\ \/ x.next_review_date < y.next_review_date
              \/ /\ x.next_review_date = y.next_review_date
                 /\ \/ x.difficulty_score > y.difficulty_score
                    \/ /\ x.difficulty_score = y.difficulty_score
                       /\ DblLeq(x.ease_factor, y.ease_factor)

Selection ==
    \/ GetNextWord
    \/ GetDueCount
    \/ SimpleGetDueVocab
    \/ \E size \in SessionSizes : StartSession(size)

C21_QualityBelowThreeResets ==
    (rule = "submitted" /\ outcome # "none") =>
        IF outcome \in {"q0", "q1", "q2"}
        THEN sched.repetitions = 0 /\ sched.interval = 1
        ELSE sched.repetitions = before.repetitions + 1


\* the quality a review was given
QualityOf(name) == CHOOSE q \in 0..5 : QualityName(q) = name

\* the ease factor e is x hundredths, up to the error of a few roundings
NearHundredths(e, x) == e.h = x /\ e.d < 1048576 /\ 0 - e.d < 1048576

(***************************************************************************)
(* C22.  calculate_next_review_legacy with quality q in 0..5: the new      *)
(* ease factor is max(1.3, ease + 0.1 - (5-q)(0.08 + (5-q)0.02)); for      *)
(* q >= 3 the interval is 1 at repetition 1, 6 at repetition 2 and the     *)
(* rounded product of the previous interval and the ease factor after      *)
(* that; the constant of repetition 2 is not the boolean rule's.           *)
(***************************************************************************)
C22_QualityRule ==
    (rule = "quality" /\ outcome # "none") =>
        LET q == QualityOf(outcome)
            a == 5 - q
        IN  /\ NearHundredths(sched.ease_factor,
                              Max(130, before.ease_factor.h + 10 - a * (8 + 2 * a)))
            /\ q >= 3 =>
                /\ sched.repetitions = before.repetitions + 1
                /\ (sched.repetitions = 1 => sched.interval = 1)
                /\ (sched.repetitions = 2 => sched.interval = 6)
                /\ (sched.repetitions >= 3 =>
                        IsNearest(sched.interval, before.interval, before.ease_factor))
                /\ (sched.repetitions = 2 =>
                        sched.interval # calculate_srs(TRUE, before.interval,
                                                       before.ease_factor,
                                                       before.repetitions)[1])

\* quality 3 at the third repetition, and quality 4 at the second
C22_Witness ==
    /\ rule = "quality"
    /\ \/ /\ outcome = "q3"
          /\ before = SchedState(6, Lit(250), 2, 0)
          /\ sched.interval = 15
          /\ sched.repetitions = 3
          /\ sched.ease_factor.h = 236
       \/ /\ outcome = "q4"
          /\ before.repetitions = 1
          /\ sched.interval = 6
          /\ sched.ease_factor.h = before.ease_factor.h


(***************************************************************************)
(* C23.  Under the quality rule, starting from ease factor 2.5, the ease   *)
(* factor is in [1.3, 3.0] after every sequence of reviews with qualities  *)
(* in 0..5 (to the nearest hundredth, so that rounding error of the sum    *)
(* does not count).                                                        *)
(***************************************************************************)
C23_QualityEaseBounded ==
    (rule = "quality" /\ depth = MaxReviews) =>
        130 <= sched.ease_factor.h /\ sched.ease_factor.h <= 300


\* a scheduling state every field of which has a value of its kind
WellFormed(s) ==
    /\ s.interval \in Nat /\ s.interval >= 1
    /\ s.repetitions \in Nat
    /\ s.streak \in Nat
    /\ DblLeq(Lit(130), s.ease_factor) /\ DblLeq(s.ease_factor, Lit(300))

(***************************************************************************)
(* C24.  The scheduling update is total: in every well-formed state,       *)
(* the never-reviewed state (interval 1, repetition count 0) included, an  *)
(* answer of either outcome can be applied and gives a well-formed state.  *)
(***************************************************************************)
C24_UpdateTotal ==
    /\ WellFormed(sched)
    /\ WellFormed(Advance(sched, TRUE))
    /\ WellFormed(Advance(sched, FALSE))

\* an incorrect answer to an item never reviewed
C24_Witness ==
    /\ outcome = "incorrect"
    /\ before = DefaultState
    /\ sched.interval = 1
    /\ sched.repetitions = 0
    /\ sched.ease_factor = Lit(230)


\* x and y are the same character, or the two cases of one letter
SameLetter(x, y) ==
    \/ x = y
    \/ \E k \in 1..26 : {x, y} = {LowerCase[k], UpperCase[k]}

\* str[lo..hi] is str without its surrounding whitespace
Core(str, lo, hi) ==
    /\ \A i \in 1..(lo - 1) : str[i] \in Whitespace
    /\ \A i \in (hi + 1)..Len(str) : str[i] \in Whitespace
    /\ IF lo <= hi THEN str[lo] \notin Whitespace /\ str[hi] \notin Whitespace
                   ELSE hi = lo - 1

\* u and c are equal once surrounding whitespace is trimmed and case ignored
EqualNormalized(u, c) ==
    \E lo1 \in 1..(Len(u) + 1), hi1 \in 0..Len(u),
       lo2 \in 1..(Len(c) + 1), hi2 \in 0..Len(c) :
        /\ Core(u, lo1, hi1)
        /\ Core(c, lo2, hi2)
        /\ hi1 - lo1 = hi2 - lo2
        /\ \A t \in 0..(hi1 - lo1) : SameLetter(u[lo1 + t], c[lo2 + t])

\* a call of fuzzy_match has returned
Judgement == reply.handler = "fuzzy_match" /\ reply.status = 200

(***************************************************************************)
(* C25.  The judge answers correct whenever the submitted text and the     *)
(* reference are equal after trimming surrounding whitespace and folding   *)
(* case; judge(x, x) is true, and judge("apel", "Apel ") is true.          *)
(***************************************************************************)
C25_ExactMatchCorrect ==
    Judgement =>
        /\ EqualNormalized(reply.body.user_answer, reply.body.correct_answer)
                => reply.body.correct
        /\ reply.body.user_answer = reply.body.correct_answer
                => reply.body.correct
        /\ (/\ reply.body.user_answer = <<"a", "p", "e", "l">>
            /\ reply.body.correct_answer = <<"A", "p", "e", "l", " ">>)
                => reply.body.correct

\* judge("apel", "Apel ") has answered correct
C25_Witness ==
    /\ Judgement
    /\ reply.body.user_answer = <<"a", "p", "e", "l">>
    /\ reply.body.correct_answer = <<"A", "p", "e", "l", " ">>
    /\ reply.body.correct

\* length of a longest common subsequence of a and b
LongestCommonSubsequence(a, b) ==
    LET lcs[i \in 0..Len(a), j \in 0..Len(b)] ==
            IF i = 0 \/ j = 0 THEN 0
            ELSE IF a[i] = b[j] THEN lcs[i - 1, j - 1] + 1
            ELSE Max(lcs[i - 1, j], lcs[i, j - 1])
    IN  lcs[Len(a), Len(b)]

\* length of a longest block of characters a and b have in common
LongestCommonBlock(a, b) ==
    LET runs == {RunLength(a, b, i, j, Len(a), Len(b)) :
                    i \in 1..Len(a), j \in 1..Len(b)} \cup {0}
    IN  CHOOSE k \in runs : \A l \in runs : l <= k

AllWhitespace(str) == \A i \in 1..Len(str) : str[i] \in Whitespace

(***************************************************************************)
(* C26.  For texts that differ after normalization the judge answers       *)
(* correct exactly when the similarity ratio is at least 0.8, the ratio    *)
(* being twice the number of matched characters over the sum of the two    *)
(* lengths: not when even a longest common subsequence is too short, and   *)
(* always when one common block is long enough.  judge("aple", "apple")    *)
(* is true, judge("xyz", "apple") is false, and an empty submitted text    *)
(* is correct only against an empty reference.                             *)
(***************************************************************************)
C26_SimilarityThreshold ==
    Judgement =>
        LET u == Strip(Lower(reply.body.user_answer))
            c == Strip(Lower(reply.body.correct_answer))
            length == Len(u) + Len(c)
        IN  /\ ~EqualNormalized(reply.body.user_answer, reply.body.correct_answer) =>
                /\ reply.body.correct <=> 5 * matching_size(u, c) >= 2 * length
                /\ reply.body.correct => 5 * LongestCommonSubsequence(u, c) >= 2 * length
                /\ 5 * LongestCommonBlock(u, c) >= 2 * length => reply.body.correct
            /\ (/\ reply.body.user_answer = <<"a", "p", "l", "e">>
                /\ reply.body.correct_answer = <<"a", "p", "p", "l", "e">>)
                    => reply.body.correct
            /\ (/\ reply.body.user_answer = <<"x", "y", "z">>
                /\ reply.body.correct_answer = <<"a", "p", "p", "l", "e">>)
                    => ~reply.body.correct
            /\ (AllWhitespace(reply.body.user_answer) /\ reply.body.correct)
                    => AllWhitespace(reply.body.correct_answer)

\* a ratio of exactly 0.8 (two of five characters matched twice), and the
\* empty text against a reference
C26_Witness ==
    /\ Judgement
    /\ \/ /\ reply.body.user_answer = <<"a", "b">>
          /\ reply.body.correct_answer = <<"a", "b", "b">>
          /\ reply.body.correct
       \/ /\ reply.body.user_answer = <<>>
          /\ reply.body.correct_answer = <<"a", "p", "e", "l">>
          /\ ~reply.body.correct


\* the step commits the answer request r holds
Commits(r) ==
    /\ req[r].pc = "updated"
    /\ req'[r].pc = "idle"
    /\ reply'.status = 200
    /\ reply'.handler = "submit_answer_duolingo"

(***************************************************************************)
(* C27.  Submissions for different items do not interfere, however their   *)
(* steps interleave: committing an answer for an item changes no other     *)
(* item's row, no step of a submission changes the row of another item,    *)
(* and when no other answer for the same item was committed since the      *)
(* request read the row, the committed state is the item's persisted       *)
(* state advanced by this answer, whatever was submitted for other items   *)
(* in between.                                                             *)
(***************************************************************************)
C27_ItemsIndependent ==
    [][/\ \A r \in Requests :
            Commits(r) =>
                LET w == req[r].word_id
                IN  /\ \A v \in Words \ {w} : words'[v] = words[v]
                    /\ req[r].current = LoadedState(words[w]) =>
                          Scheduling(words'[w]) =
                              Advance(LoadedState(words[w]), req[r].is_correct)
       /\ \A v \in Words :
            words'[v] # words[v] =>
                \E r \in Requests : Commits(r) /\ req[r].word_id = v
      ]_vars

\* an answer for one item was committed while a submission for another item
\* was in flight, and the other item's row is as it was
C27_Witness ==
    /\ Len(reviews) = 1
    /\ req[1].pc = "idle"
    /\ req[2].pc = "loaded"
    /\ reviews[1].word_id # req[2].word_id
    /\ words[req[2].word_id] = WordRow(DefaultState, NULL, NULL)
    /\ words[reviews[1].word_id] # WordRow(DefaultState, NULL, NULL)


\* item w is among the items a selection returned
Selected(w, items) == \E i \in 1..Len(items) : items[i] = w

SessionHandlers == {"session_start", "session_complete", "session_answer"}

(***************************************************************************)
(* C29.  An item's scheduling state changes only when an answer for that   *)
(* item is scheduled, and that write replaces interval, repetitions, ease  *)
(* factor, streak, next review and last reviewed together, all from the    *)
(* one state the request read; session_start, session_complete and         *)
(* session_answer leave the words and the reviews as they are.             *)
(***************************************************************************)
C29_SchedulingFrame ==
    [][/\ \A w \in Words :
            words'[w] # words[w] =>
                \E r \in Requests :
                    /\ Commits(r)
                    /\ req[r].word_id = w
                    /\ Scheduling(words'[w]) =
                           Advance(req[r].current, req[r].is_correct)
                    /\ words'[w].next_review = req[r].next_review
                    /\ words'[w].last_reviewed = req[r].last_reviewed
                    /\ words'[w].next_review # NULL
                    /\ words'[w].last_reviewed # NULL
       /\ reviews' # reviews =>
            /\ reply'.status = 200
            /\ reply'.handler \in {"submit_answer_duolingo", "post_review"}
       /\ (ops' = ops + 1 /\ reply'.handler \in SessionHandlers) =>
            /\ words' = words
            /\ reviews' = reviews
      ]_vars

\* session_answer recorded a wrong answer for a word whose scheduled streak,
\* set by the answer submitted before, is still 1
C29_Witness ==
    /\ reply.handler = "session_answer"
    /\ reply.status = 200
    /\ Len(user_answers) = 1
    /\ Len(reviews) = 1
    /\ schema = "duolingo"
    /\ user_answers[1].word_id = reviews[1].word_id
    /\ ~user_answers[1].correct
    /\ words[reviews[1].word_id].streak = 1


\* the default state advanced by the committed answers for word w, each once,
\* in the order of their commits
ReplayInOrder(w) ==
    LET state[n \in 0..Len(reviews)] ==
            IF n = 0 THEN DefaultState
            ELSE IF reviews[n].word_id = w
                 THEN Advance(state[n - 1], reviews[n].correct)
                 ELSE state[n - 1]
    IN  state[Len(reviews)]

(***************************************************************************)
(* C30.  Submitting an answer again after a reported store failure is      *)
(* safe: a failed attempt leaves nothing behind, so however many attempts  *)
(* failed, the persisted state of the word is its default state advanced   *)
(* once by each answer that was accepted, and the accepted answers are as  *)
(* many as the recorded ones; the update gives one result for one state    *)
(* and outcome.                                                            *)
(***************************************************************************)
C30_RetrySafe ==
    /\ Scheduling(words[RetriedWord]) = ReplayInOrder(RetriedWord)
    /\ req[1].pc # "idle" =>
          req[1].new = Advance(LoadedState(words[RetriedWord]), req[1].is_correct)
    /\ (Len(reviews) = 0) = (words[RetriedWord].last_reviewed = NULL)

\* the second attempt succeeded after the first one failed: one answer is
\* recorded, and the word is in the state of one application
C30_Witness ==
    /\ ops = 2
    /\ req[1].pc = "idle"
    /\ Len(reviews) = 1
    /\ reply.handler = "submit_answer_duolingo"
    /\ reply.status = 200
    /\ Scheduling(words[RetriedWord]) = Advance(DefaultState, reviews[1].correct)


\* the rows of learning_sessions that carry the token
SessionsOf(session_token) ==
    {i \in 1..Len(learning_sessions) :
        learning_sessions[i].session_token = session_token}

C38_AnswerValidated ==
    [][\A fields \in SessionFields, token \in SessionTokens,
          w \in Words \cup {UnknownWord}, correct \in BOOLEAN :
            SessionAnswer(fields, token, w, WordText[1].indonesian, correct) =>
                /\ user_answers' # user_answers =>
                      /\ SessionsOf(token) # {}
                      /\ w \in Words
                      /\ fields = "complete"
                /\ (SessionsOf(token) = {} \/ w \notin Words \/ fields = "missing") =>
                      /\ reply'.handler = "session_answer"
                      /\ reply'.status >= 400
                      /\ user_answers' = user_answers
      ]_vars

\* an answer for a word that does not exist was refused after an answer of
\* the same session was recorded
C38_Witness ==
    /\ reply.handler = "session_answer"
    /\ reply.status = 400
    /\ reply.body = "Invalid word_id"
    /\ Len(user_answers) = 1
    /\ user_answers[1].session_token = "s1"


(***************************************************************************)
(* Properties of the circuit breaker and of get_connection (SpecBreaker,   *)
(* SpecConnect).                                                           *)
(***************************************************************************)
\* C32: the circuit breaker opens once failure_threshold failures have been
\* recorded without a success in between; while it is open, can_attempt
\* returns False until recovery_timeout has passed since the last failure,
\* and from then on it makes the breaker half-open and returns True;
\* record_success closes the breaker from any state and sets the failure
\* count to 0.
C32_BreakerCycle ==
    [][ /\ breaker.state = "closed" => breaker.failure_count < failure_threshold
        /\ (reply'.handler = "record_failure" /\ RecordFailure) =>
              /\ breaker'.failure_count = breaker.failure_count + 1
              /\ breaker'.failure_count >= failure_threshold =>
                     breaker'.state = "open"
        /\ (reply'.handler = "record_success" /\ RecordSuccess) =>
              /\ breaker'.state = "closed"
              /\ breaker'.failure_count = 0
        /\ (reply'.handler = "can_attempt" /\ breaker.state = "open"
            /\ CanAttempt) =>
              IF clock - breaker.last_failure_time >= recovery_timeout
              THEN reply'.result = TRUE /\ breaker'.state = "half-open"
              ELSE reply'.result = FALSE /\ breaker'.state = "open"
      ]_vars


\* C33: connect_postgresql makes no connection attempt on the PostgreSQL
\* server while the circuit breaker is open and less than recovery_timeout
\* has passed since the last failure, the retries inside one call included,
\* and one call makes at most retry_attempts attempts.
C33_NoAttemptWhileOpen ==
    /\ Len(link.attempts) <= retry_attempts
    /\ \A i \in 1..Len(link.attempts) :
          LET made == link.attempts[i]
          IN  ~ (/\ made.breaker.state = "open"
                 /\ made.at - made.breaker.last_failure_time < recovery_timeout)

\* the last PostgreSQL attempt of the call connected
PostgresConnects ==
    /\ link.attempts # <<>>
    /\ link.attempts[Len(link.attempts)].result = "connected"

\* C34: get_connection always returns a connection: the PostgreSQL one if
\* connecting to PostgreSQL succeeds, else the SQLite one if connecting to
\* SQLite succeeds, and the mock only when both failed; current_db_type
\* names the kind of the connection returned.
C34_FallbackOrder ==
    reply.handler = "get_connection" =>
        /\ link.conn \in {"postgresql", "sqlite", "mock"}
        /\ link.conn = "postgresql" <=> PostgresConnects
        /\ link.conn = "sqlite" <=>
               (~ PostgresConnects /\ link.sqlite = "connected")
        /\ link.conn = "mock" <=>
               (~ PostgresConnects /\ link.sqlite = "failed")
        /\ PostgresConnects => link.sqlite = "untried"
        /\ link.current_db_type = link.conn

\* the mock is returned after three failed attempts on PostgreSQL and a
\* failed SQLite connection
C34_Witness ==
    /\ reply.handler = "get_connection"
    /\ link.conn = "mock"
    /\ link.current_db_type = "mock"
    /\ Len(link.attempts) = retry_attempts
    /\ link.sqlite = "failed"


\* C35: on the boolean answer path, in every state reached from the default
\* state (repetitions 0, streak 0) by any sequence of correct and incorrect
\* answers, the streak of the item equals its repetition count.
C35_StreakIsRepetitions ==
    rule = "boolean" => sched.streak = sched.repetitions

\* five answers, the third of them incorrect: streak and count are 2 again
C35_Witness ==
    /\ rule = "boolean"
    /\ answers = 5
    /\ outcome = "correct"
    /\ sched.streak = 2
    /\ sched.repetitions = 2


C37_CorrectNeverShrinks ==
    (rule = "boolean" /\ outcome = "correct") =>
        /\ sched.interval >= before.interval
        /\ IntervalIncrease(TRUE, sched.interval, before.interval)
               = <<"Same interval">> => sched.interval = before.interval

=============================================================================
